---- MODULE Spec2Model ----
(***************************************************************************)
(* Model of the madcat_register backend: the registration service and the *)
(* admin listing over the user_profiles table (routes/users.js,           *)
(* config/database.js) and the OAuth 1.0a handshake with its process-wide *)
(* token cache (routes/users.js, config/twitter.js).                      *)
(*                                                                         *)
(* A request handler runs without interruption from one await to the next *)
(* (the JavaScript event loop), so every action below is one such segment: *)
(* the arrival of a request up to its first await, or the resumption of an *)
(* awaited call (pool.connect, client.query, fetch) up to the next await   *)
(* or the response.  The outcome of the awaited call is the action's input.*)
(* Strings whose characters the code inspects are sequences of one-       *)
(* character strings.                                                      *)
(***************************************************************************)
EXTENDS Integers, Sequences, FiniteSets, TLC

VARIABLES
    user_profiles,      \* the rows of table user_profiles, in insertion order
    id_seq,             \* last value of the SERIAL sequence of user_profiles.id
    checkedOut,         \* connections checked out of the pool and not released
    alive,              \* FALSE once process.exit(1) ran
    reg,                \* POST /api/register requests, in arrival order
    adm,                \* POST /api/users requests, in arrival order
    oauth,              \* config/twitter.js `oauth`: TRUE when constructed, FALSE when null
    tempTokenStorage,   \* global.tempTokenStorage: undefined, or a Map token -> secret
    stores,             \* per request token, how many times the cache stored it
    begins,             \* GET /api/auth/twitter requests, in arrival order
    cbs,                \* GET /api/auth/twitter/callback requests, in arrival order
    env,                \* process.env, fixed when the process starts
    authHits,           \* authRateLimit: requests to /api/auth counted in the current window
    status_checks,      \* the rows of table status_checks, in insertion order
    sts,                \* POST and GET /api/status requests, in arrival order
    boards,             \* the answers of the leaderboard routes, in arrival order
    generalHits         \* generalRateLimit: requests counted in the current window

stVars == <<status_checks, sts>>
dbVars == <<user_profiles, id_seq, checkedOut, reg, adm, stVars>>
hsVars == <<oauth, tempTokenStorage, stores, begins, cbs>>
vars == <<user_profiles, id_seq, checkedOut, alive, reg, adm,
          oauth, tempTokenStorage, stores, begins, cbs, env, authHits,
          status_checks, sts, boards, generalHits>>

(***************************************************************************)
(* Bounds of the model.                                                    *)
(***************************************************************************)
MaxRegister == 2
MaxListRegister == 1
MaxListing == 1
MaxBegin == 2
MaxCallback == 2
MaxLimitedBegin == 1
MaxLimitedCallback == 1
MaxRequests == 2
MaxValidated == 1
MaxAdmin == 2
MaxDuplicate == 3
MaxStorage == 2
MaxLeaderboard == 3
MaxUrlBegin == 1

(***************************************************************************)
(* Strings as character sequences.                                         *)
(***************************************************************************)
Digits == {"0", "1", "2", "3", "4", "5", "6", "7", "8", "9"}
HexLetters == {"a", "b", "c", "d", "e", "f", "A", "B", "C", "D", "E", "F"}
Whitespace == {" "}

Rep(c, n) == [i \in 1..n |-> c]

AllIn(s, S) == \A i \in 1..Len(s) : s[i] \in S

\* validator.js ltrim/rtrim (/^\s+/ and /\s+$/), used by the .trim() sanitizer
RECURSIVE ltrim(_)
ltrim(s) == IF Len(s) > 0 /\ Head(s) \in Whitespace THEN ltrim(Tail(s)) ELSE s

RECURSIVE rtrim(_)
rtrim(s) ==
    IF Len(s) > 0 /\ s[Len(s)] \in Whitespace
    THEN rtrim(SubSeq(s, 1, Len(s) - 1))
    ELSE s

trim(s) == rtrim(ltrim(s))

\* validator.js isEmpty with ignore_whitespace false, negated by notEmpty()
notEmpty(s) == Len(s) # 0

isLength(s, min, max) == Len(s) >= min /\ Len(s) <= max

\* validator.js isNumeric without no_symbols: /^[+-]?([0-9]*[.])?[0-9]+$/
UnsignedNumeric(s) ==
    \/ Len(s) > 0 /\ AllIn(s, Digits)
    \/ \E k \in 1..Len(s) :
          /\ s[k] = "."
          /\ AllIn(SubSeq(s, 1, k - 1), Digits)
          /\ k < Len(s)
          /\ AllIn(SubSeq(s, k + 1, Len(s)), Digits)

isNumeric(s) ==
    IF Len(s) > 0 /\ Head(s) \in {"+", "-"}
    THEN UnsignedNumeric(Tail(s))
    ELSE UnsignedNumeric(s)

\* mutant: the pattern /^0x[a-f0-9]{40}$/, without the upper-case letters
matchesWallet_lowerOnly(s) ==
    /\ Len(s) = 42
    /\ s[1] = "0"
    /\ s[2] = "x"
    /\ AllIn(SubSeq(s, 3, 42), Digits \cup {"a", "b", "c", "d", "e", "f"})

\* /^0x[a-fA-F0-9]{40}$/
matchesWallet(s) ==
    /\ Len(s) = 42
    /\ s[1] = "0"
    /\ s[2] = "x"
    /\ AllIn(SubSeq(s, 3, 42), Digits \cup HexLetters)

(***************************************************************************)
(* Request bodies.  A field the request does not carry is Absent.          *)
(***************************************************************************)
Absent == <<"undefined">>

\* express-validator hands validators the string form of the value
Str(v) == IF v = Absent THEN <<>> ELSE v

Wallet(c) == <<"0", "x">> \o Rep(c, 40)

Body(t, g, w) ==
    [twitter_id |-> t, twitter_username |-> <<"u">>,
     telegram_username |-> g, wallet_address |-> w]

RegisterBodies ==
    { \* well-formed bodies: pairs of them share no, one or two unique fields
      Body(<<"1">>, <<"a">>, Wallet("a")),
      Body(<<"1">>, <<"b">>, Wallet("b")),
      Body(<<"2">>, <<"a">>, Wallet("b")),
      Body(<<"2">>, <<"b">>, Wallet("a")),
      Body(<<"2">>, <<"b">>, Wallet("b")),
      \* a handle the sanitizer trims to "a", and no twitter_username
      [Body(<<"2">>, <<" ", "a">>, Wallet("b")) EXCEPT !.twitter_username = Absent],
      \* a whitespace-only handle
      Body(<<"1">>, <<" ">>, Wallet("a")),
      \* a non-numeric twitter_id and a 41-character wallet address
      Body(<<"x">>, <<"a">>, <<"0", "x">> \o Rep("a", 39)) }

\* twitter_id values sent to the validator
TwitterIdInputs ==
    { Absent, <<>>, <<"1">>, Rep("7", 15), Rep("9", 20), Rep("9", 21),
      <<"a">>, <<"a", "b", "c", "1", "2", "3">>, <<"1", "e", "5">>, <<" ", "1">>,
      <<"+", "1">>, <<"-", "1">>, <<"1", ".", "5">>, <<".", "5">>, <<"1", ".">>,
      <<"+">>, <<"+">> \o Rep("9", 19), <<"+">> \o Rep("9", 20) }

\* telegram_username values sent to the validator
TelegramInputs ==
    { Absent, <<>>, <<" ">>, <<" ", " ">>, <<"a">>, <<" ", "a">>, <<"a", " ">>,
      <<" ", "a", " ">>, <<"a", " ", "b">>, Rep("a", 50), Rep("a", 51),
      <<" ">> \o Rep("a", 50), Rep("a", 49) \o <<" ">>, Rep("a", 50) \o <<" ">>,
      Rep(" ", 51) }

\* wallet_address values sent to the validator
WalletInputs ==
    { Absent, <<>>, Wallet("a"), Wallet("F"), Wallet("0"),
      <<"0", "x">> \o Rep("a", 39), <<"0", "x">> \o Rep("a", 41),
      <<"0", "X">> \o Rep("a", 40), <<"1", "x">> \o Rep("a", 40),
      <<"0", "x">> \o Rep("a", 39) \o <<"g">>, <<"0", "x">> \o Rep("z", 40),
      <<"0", "x", "G">> \o Rep("a", 39), Rep("a", 42),
      <<" ">> \o Wallet("a"), <<"0", "x">> \o Rep("a", 39) \o <<" ">> }

\* bodies for the validator: one field varies, the others are well-formed;
\* and one body with every required field malformed
ValidationBodies ==
    { Body(t, <<"b">>, Wallet("a")) : t \in TwitterIdInputs }
    \cup { Body(<<"1">>, g, Wallet("a")) : g \in TelegramInputs }
    \cup { Body(<<"1">>, <<"b">>, w) : w \in WalletInputs }
    \cup { Body(<<"a">>, <<>>, <<"0", "x">>) }

(***************************************************************************)
(* validateRegistration: the errors of the four validation chains, as      *)
(* <<field, message>> pairs, and the body the sanitizers leave behind.     *)
(***************************************************************************)
Letters ==
    {"a", "b", "c", "d", "e", "f", "g", "h", "i", "j", "k", "l", "m",
     "n", "o", "p", "q", "r", "s", "t", "u", "v", "w", "x", "y", "z",
     "A", "B", "C", "D", "E", "F", "G", "H", "I", "J", "K", "L", "M",
     "N", "O", "P", "Q", "R", "S", "T", "U", "V", "W", "X", "Y", "Z"}

\* one validator of a chain: its message is recorded when the check fails
ErrUnless(ok, field, msg) == IF ok THEN {} ELSE {<<field, msg>>}

\* /^[a-zA-Z0-9_]+$/
matchesUsername(s) == Len(s) > 0 /\ AllIn(s, Letters \cup Digits \cup {"_"})

validateRegistration(b) ==
    LET id == Str(b.twitter_id)
        tg == Str(b.telegram_username)
        wa == Str(b.wallet_address)
        un == b.twitter_username
    IN  ErrUnless(notEmpty(id), "twitter_id", "Twitter ID is required")
        \cup ErrUnless(isNumeric(id), "twitter_id", "Twitter ID must be numeric")
        \cup ErrUnless(isLength(id, 1, 20), "twitter_id",
                       "Twitter ID must be between 1 and 20 characters")
        \* .optional(): the chain is skipped when the field is undefined
        \cup ErrUnless(un = Absent \/ isLength(un, 1, 25), "twitter_username",
                       "Twitter username must be between 1 and 15 characters")
        \cup ErrUnless(un = Absent \/ matchesUsername(un), "twitter_username",
                       "Twitter username can only contain letters, numbers, and underscores")
        \* .trim() is the last link: the checks before it see the untrimmed value
        \cup ErrUnless(notEmpty(tg), "telegram_username", "Telegram username is required")
        \cup ErrUnless(isLength(tg, 1, 50), "telegram_username",
                       "Telegram username must be between 1 and 50 characters")
        \cup ErrUnless(notEmpty(wa), "wallet_address", "Wallet address is required")
        \cup ErrUnless(isLength(wa, 42, 42), "wallet_address",
                       "Wallet address must be exactly 42 characters")
        \cup ErrUnless(matchesWallet(wa), "wallet_address",
                       "Invalid Ethereum wallet address format")

\* req.body after the chains ran: .trim() replaces telegram_username
sanitizeRegistration(b) ==
    [b EXCEPT !.telegram_username =
        IF b.telegram_username = Absent THEN Absent ELSE trim(b.telegram_username)]

\* JavaScript `!v` for a string or undefined
Falsy(v) == v = Absent \/ Len(v) = 0

(***************************************************************************)
(* The user_profiles table (config/database.js).                           *)
(***************************************************************************)
NoRow == [id |-> 0]

\* mutant: the existence check joins its three conditions with AND
selectExisting_and(rows, b) ==
    SelectSeq(rows, LAMBDA r : /\ r.twitter_id = b.twitter_id
                               /\ r.telegram_username = b.telegram_username
                               /\ r.wallet_address = b.wallet_address)

\* WHERE twitter_id = $1 OR telegram_username = $2 OR wallet_address = $3
selectExisting(rows, b) ==
    SelectSeq(rows, LAMBDA r : \/ r.twitter_id = b.twitter_id
                               \/ r.telegram_username = b.telegram_username
                               \/ r.wallet_address = b.wallet_address)

\* mutant: the table lacks uq_user_profiles_telegram_username
violatesUnique_noTelegram(rows, b) ==
    \E i \in 1..Len(rows) :
        \/ rows[i].twitter_id = b.twitter_id
        \/ rows[i].wallet_address = b.wallet_address

\* the three UNIQUE constraints of user_profiles
violatesUnique(rows, b) ==
    \E i \in 1..Len(rows) :
        \/ rows[i].twitter_id = b.twitter_id
        \/ rows[i].telegram_username = b.telegram_username
        \/ rows[i].wallet_address = b.wallet_address

\* error.message of the 23505 the engine raises: it names the constraint
\* found violated; the constraints are checked in the order the table
\* declares them
uniqueViolationMessage(rows, b) ==
    IF \E i \in 1..Len(rows) : rows[i].twitter_id = b.twitter_id
    THEN "duplicate key value violates unique constraint uq_user_profiles_twitter_id"
    ELSE IF \E i \in 1..Len(rows) : rows[i].telegram_username = b.telegram_username
    THEN "duplicate key value violates unique constraint uq_user_profiles_telegram_username"
    ELSE "duplicate key value violates unique constraint uq_user_profiles_wallet_address"

\* the value of NOW() never precedes a timestamp already written
lastTime(rows) ==
    IF Len(rows) = 0 THEN 0
    ELSE CHOOSE t \in {rows[i].created_at : i \in 1..Len(rows)} :
            \A i \in 1..Len(rows) : rows[i].created_at <= t

\* the row INSERT ... VALUES ($1, $2, $3, $4, $5, NOW(), NOW()) writes
newRow(id, b, now) ==
    [id |-> id, twitter_id |-> b.twitter_id, twitter_username |-> b.twitter_username,
     telegram_username |-> b.telegram_username, wallet_address |-> b.wallet_address,
     created_at |-> now, updated_at |-> now]

\* mutant: ORDER BY created_at, oldest first
orderByCreatedAtDesc_ascending(rows) ==
    { p \in [1..Len(rows) -> {rows[i] : i \in 1..Len(rows)}] :
         /\ \A i \in 1..Len(rows) : \E k \in 1..Len(rows) : p[k] = rows[i]
         /\ \A k \in 1..Len(rows) - 1 : p[k].created_at <= p[k + 1].created_at }

\* mutant: the listing reads the legacy table users, which nothing writes
orderByCreatedAtDesc_legacyTable(rows) == {<<>>}

\* SELECT * FROM user_profiles ORDER BY created_at DESC: the orders the engine
\* may return (rows with equal created_at come in any order)
orderByCreatedAtDesc(rows) ==
    LET n == Len(rows)
        perms == {f \in [1..n -> 1..n] : \A i, j \in 1..n : i # j => f[i] # f[j]}
    IN  {[i \in 1..n |-> rows[f[i]]] : f \in
            {g \in perms : \A i \in 1..n : \A j \in 1..n :
                              i < j => rows[g[i]].created_at >= rows[g[j]].created_at}}

(***************************************************************************)
(* Responses.  status 0: no response was sent.                             *)
(***************************************************************************)
NoResponse == [status |-> 0, ctype |-> "none", error |-> "", details |-> {}, user |-> NoRow]

Json(status, error) ==
    [status |-> status, ctype |-> "json", error |-> error, details |-> {}, user |-> NoRow]

\* A rejected promise escapes an async handler (pool.connect() is awaited
\* outside the try).  What follows depends on the Express major version,
\* which the repository does not pin down: either the rejection is unhandled
\* and server.js exits the process, or the router forwards it to the default
\* error handler, which answers 500 with an HTML page.
EscapeOutcomes == {"exit", "default_handler"}

DefaultHandler500 ==
    [status |-> 500, ctype |-> "html", error |-> "Internal Server Error",
     details |-> {}, user |-> NoRow]

(***************************************************************************)
(* The connection pool: checkedOut counts the clients pool.connect() has   *)
(* handed out and that were not released.                                  *)
(***************************************************************************)
\* mutant: the handlers have no finally block
release_never(n) == n

\* finally { client.release() }
release(n) == n - 1

(***************************************************************************)
(* POST /api/register                                                      *)
(***************************************************************************)
\* the unique fields of body b that some row of rows already holds
collidingFields(rows, b) ==
    {f \in {"twitter_id", "telegram_username", "wallet_address"} :
        \E i \in 1..Len(rows) :
            \/ f = "twitter_id" /\ rows[i].twitter_id = b.twitter_id
            \/ f = "telegram_username" /\ rows[i].telegram_username = b.telegram_username
            \/ f = "wallet_address" /\ rows[i].wallet_address = b.wallet_address}

\* mutant: the 400 of a unique-constraint violation carries error.message
registerCatch_message(code, message) ==
    IF code = "23505"
    THEN Json(400, message)
    ELSE Json(500, message)

\* mutant: the catch block does not tell a unique-constraint violation apart
registerCatch_generic(code, message) == Json(500, message)

\* the catch block of the handler: a unique-constraint violation is a 400
registerCatch(code, message) ==
    IF code = "23505"
    THEN Json(400, "User already registered")
    ELSE Json(500, message)

\* does the request pass validateRegistration and the handler's own check of
\* the three required fields ("additional server-side validation")?
passesValidation(b) ==
    /\ validateRegistration(b) = {}
    /\ LET body == sanitizeRegistration(b)
       IN  ~(Falsy(body.twitter_id) \/ Falsy(body.telegram_username)
             \/ Falsy(body.wallet_address))

\* mutant: the 400 is sent without `return`, and the handler goes on
Register_noReturn(b) ==
    /\ alive
    /\ LET errors == validateRegistration(b)
           body == sanitizeRegistration(b)
           r == [raw |-> b, body |-> body,
                 collided |-> collidingFields(user_profiles, body),
                 at |-> "connect", code |-> ""]
       IN  IF errors # {}
           THEN reg' = Append(reg, r @@ [pc |-> "connect",
                         res |-> [Json(400, "Validation failed") EXCEPT !.details = errors]])
           ELSE reg' = Append(reg, r @@ [pc |-> "connect", res |-> NoResponse])
    /\ UNCHANGED <<user_profiles, id_seq, checkedOut, alive, adm, hsVars, env, stVars>>

\* the request arrives: validation middleware, then the handler up to
\* `await pool.connect()`
Register(b) ==
    /\ alive
    /\ LET errors == validateRegistration(b)
           body == sanitizeRegistration(b)
           \* raw: the body as sent; body: req.body after the sanitizers;
           \* collided: the unique fields some row held when the request
           \* arrived; at: the last awaited call the request got to; code:
           \* error.code of the rejection its catch block saw, if any
           r == [raw |-> b, body |-> body,
                 collided |-> collidingFields(user_profiles, body),
                 at |-> "validation", code |-> ""]
       IN  IF errors # {}
           THEN reg' = Append(reg, r @@ [pc |-> "done",
                         res |-> [Json(400, "Validation failed") EXCEPT !.details = errors]])
           ELSE reg' = Append(reg, [r EXCEPT !.at = "connect"]
                                      @@ [pc |-> "connect", res |-> NoResponse])
    /\ UNCHANGED <<user_profiles, id_seq, checkedOut, alive, adm, hsVars, env, stVars>>

\* pool.connect() settles; on success the handler runs to `await client.query(SELECT)`
RegisterConnected(i, outcome) ==
    /\ alive
    /\ i \in 1..Len(reg)
    /\ reg[i].pc = "connect"
    /\ LET b == reg[i].body IN
       CASE outcome = "ok" ->
              IF Falsy(b.twitter_id) \/ Falsy(b.telegram_username) \/ Falsy(b.wallet_address)
              THEN \* return inside try: finally releases the client at once
                   /\ reg' = [reg EXCEPT ![i].pc = "done",
                                ![i].res = Json(400, "Missing required fields: twitter_id, telegram_username, and wallet_address are required")]
                   /\ checkedOut' = release(checkedOut + 1)
                   /\ UNCHANGED alive
              ELSE /\ reg' = [reg EXCEPT ![i].pc = "select", ![i].at = "select"]
                   /\ checkedOut' = checkedOut + 1
                   /\ UNCHANGED alive
         [] outcome = "exit" ->
              /\ reg' = [reg EXCEPT ![i].pc = "escaped"]
              /\ alive' = FALSE
              /\ UNCHANGED checkedOut
         [] outcome = "default_handler" ->
              /\ reg' = [reg EXCEPT ![i].pc = "escaped", ![i].res = DefaultHandler500]
              /\ UNCHANGED <<checkedOut, alive>>
    /\ UNCHANGED <<user_profiles, id_seq, adm, hsVars, env, stVars>>

\* the SELECT settles; the handler answers 400 or runs to `await client.query(INSERT)`
RegisterSelected(i, outcome) ==
    /\ alive
    /\ i \in 1..Len(reg)
    /\ reg[i].pc = "select"
    /\ IF outcome = "ok"
       THEN IF Len(selectExisting(user_profiles, reg[i].body)) > 0
            THEN /\ reg' = [reg EXCEPT ![i].pc = "done",
                              ![i].res = Json(400, "User already registered with this Twitter, Telegram, or wallet address")]
                 /\ checkedOut' = release(checkedOut)
            ELSE /\ reg' = [reg EXCEPT ![i].pc = "insert", ![i].at = "insert"]
                 /\ UNCHANGED checkedOut
       ELSE \* the query rejects with an error whose code is not 23505
            /\ reg' = [reg EXCEPT ![i].pc = "done",
                         ![i].code = "08006",
                         ![i].res = registerCatch("08006", "connection failure")]
            /\ checkedOut' = release(checkedOut)
    /\ UNCHANGED <<user_profiles, id_seq, alive, adm, hsVars, env, stVars>>

\* mutant: INSERT ... ON CONFLICT DO UPDATE, a colliding row is overwritten
RegisterInserted_upsert(i, outcome, now) ==
    /\ alive
    /\ i \in 1..Len(reg)
    /\ reg[i].pc = "insert"
    /\ now \in {lastTime(user_profiles), lastTime(user_profiles) + 1} \ {0}
    /\ IF outcome = "ok"
       THEN /\ id_seq' = id_seq + 1
            /\ IF violatesUnique(user_profiles, reg[i].body)
               THEN LET hit == CHOOSE k \in 1..Len(user_profiles) :
                                  violatesUnique(<<user_profiles[k]>>, reg[i].body)
                        row == [newRow(user_profiles[hit].id, reg[i].body, now)
                                   EXCEPT !.created_at = user_profiles[hit].created_at]
                    IN  /\ user_profiles' = [user_profiles EXCEPT ![hit] = row]
                        /\ reg' = [reg EXCEPT ![i].pc = "done",
                                     ![i].res = [Json(200, "") EXCEPT !.user = row]]
               ELSE LET row == newRow(id_seq + 1, reg[i].body, now) IN
                    /\ user_profiles' = Append(user_profiles, row)
                    /\ reg' = [reg EXCEPT ![i].pc = "done",
                                 ![i].res = [Json(200, "") EXCEPT !.user = row]]
       ELSE /\ reg' = [reg EXCEPT ![i].pc = "done",
                         ![i].code = "08006",
                         ![i].res = registerCatch("08006", "connection failure")]
            /\ UNCHANGED <<user_profiles, id_seq>>
    /\ checkedOut' = release(checkedOut)
    /\ UNCHANGED <<alive, adm, hsVars, env, stVars>>

\* the INSERT settles: the engine enforces the UNIQUE constraints
RegisterInserted(i, outcome, now) ==
    /\ alive
    /\ i \in 1..Len(reg)
    /\ reg[i].pc = "insert"
    /\ now \in {lastTime(user_profiles), lastTime(user_profiles) + 1} \ {0}
    /\ IF outcome = "ok"
       THEN \* nextval() is consumed whether or not the row is accepted
            /\ id_seq' = id_seq + 1
            /\ IF violatesUnique(user_profiles, reg[i].body)
               THEN /\ reg' = [reg EXCEPT ![i].pc = "done",
                                 ![i].code = "23505",
                                 ![i].res = registerCatch("23505",
                                      uniqueViolationMessage(user_profiles, reg[i].body))]
                    /\ UNCHANGED user_profiles
               ELSE LET row == newRow(id_seq + 1, reg[i].body, now) IN
                    /\ user_profiles' = Append(user_profiles, row)
                    /\ reg' = [reg EXCEPT ![i].pc = "done",
                                 ![i].res = [Json(200, "") EXCEPT !.user = row]]
       ELSE /\ reg' = [reg EXCEPT ![i].pc = "done",
                         ![i].code = "08006",
                         ![i].res = registerCatch("08006", "connection failure")]
            /\ UNCHANGED <<user_profiles, id_seq>>
    /\ checkedOut' = release(checkedOut)
    /\ UNCHANGED <<alive, adm, hsVars, env, stVars>>

(***************************************************************************)
(* POST /api/users (admin listing)                                         *)
(***************************************************************************)
\* validator.js escape(): the characters & < > / and the quotes, the backslash
\* and the backtick become HTML entities (the double quote, the backslash and the backtick
\* are written DQUOTE, BACKSLASH and BACKTICK here)
escapeChar(c) ==
    CASE c = "&" -> <<"&", "a", "m", "p", ";">>
      [] c = "DQUOTE" -> <<"&", "q", "u", "o", "t", ";">>
      [] c = "'" -> <<"&", "#", "x", "2", "7", ";">>
      [] c = "<" -> <<"&", "l", "t", ";">>
      [] c = ">" -> <<"&", "g", "t", ";">>
      [] c = "/" -> <<"&", "#", "x", "2", "F", ";">>
      [] c = "BACKSLASH" -> <<"&", "#", "x", "5", "C", ";">>
      [] c = "BACKTICK" -> <<"&", "#", "9", "6", ";">>
      [] OTHER -> <<c>>

RECURSIVE escape(_)
escape(s) == IF Len(s) = 0 THEN <<>> ELSE escapeChar(Head(s)) \o escape(Tail(s))

validateAdmin(b) ==
    LET un == Str(b.username)
        pw == Str(b.password)
    IN  ErrUnless(notEmpty(un), "username", "Username is required")
        \cup ErrUnless(isLength(un, 3, 50), "username",
                       "Username must be between 3 and 50 characters")
        \cup ErrUnless(notEmpty(pw), "password", "Password is required")
        \cup ErrUnless(Len(pw) >= 8, "password",
                       "Password must be at least 8 characters long")

\* .trim().escape() replace username in req.body
sanitizeAdmin(b) ==
    [b EXCEPT !.username = IF b.username = Absent THEN Absent ELSE escape(trim(b.username))]

AdminName == <<"a", "d", "m">>
AdminPass == Rep("p", 8)

AdminBodies ==
    { [username |-> AdminName, password |-> AdminPass],
      [username |-> AdminName, password |-> Rep("q", 8)],
      [username |-> <<"b", "o", "b">>, password |-> AdminPass],
      [username |-> AdminName, password |-> <<"p">>] }

\* usernames and passwords, configured or sent: plain ones, a name too short
\* for the validator, one with surrounding whitespace, one with a character
\* that escape() rewrites, a password too short for the validator
AdminNames == { AdminName, <<"a", "d">>, <<" ">> \o AdminName, <<"a", "<", "b">>,
                <<"b", "o", "b">> }
AdminPasswords == { AdminPass, Rep("q", 8), <<"p", "w">> }

\* bodies of POST /api/users: every name with every password, or without one
AdminRequestBodies ==
    { [username |-> u, password |-> w] :
         u \in AdminNames \cup {Absent}, w \in AdminPasswords \cup {Absent} }

\* process.env with the admin secrets set to any of these, or not set
AdminEnvs ==
    { [ADMIN_USERNAME |-> u, ADMIN_PASSWORD |-> w,
       TWITTER_API_KEY |-> <<"k">>, TWITTER_API_SECRET |-> <<"k">>,
       NODE_ENV |-> "development", BACKEND_URL |-> Absent] :
         u \in (AdminNames \ {<<"b", "o", "b">>}) \cup {Absent},
         w \in (AdminPasswords \ {Rep("q", 8)}) \cup {Absent} }

\* process.env: the provider credentials may be missing
Envs ==
    { [ADMIN_USERNAME |-> AdminName, ADMIN_PASSWORD |-> AdminPass,
       TWITTER_API_KEY |-> k, TWITTER_API_SECRET |-> k,
       NODE_ENV |-> "development", BACKEND_URL |-> Absent] : k \in {<<"k">>, Absent} }

\* config/twitter.js: oauth stays null unless both credentials are set
initializeTwitterConfig(e) ==
    ~(Falsy(e.TWITTER_API_KEY) \/ Falsy(e.TWITTER_API_SECRET))

NoListing == [status |-> 0, ctype |-> "none", error |-> "", details |-> {},
              users |-> <<>>, count |-> 0]

ListingJson(status, error) ==
    [status |-> status, ctype |-> "json", error |-> error, details |-> {},
     users |-> <<>>, count |-> 0]

\* mutant: the request is turned away only when both are wrong
\* mutant: a secret that is not set is not compared
credentialsMismatch_unsetSkipped(body, e) ==
    \/ e.ADMIN_USERNAME # Absent /\ body.username # e.ADMIN_USERNAME
    \/ e.ADMIN_PASSWORD # Absent /\ body.password # e.ADMIN_PASSWORD

credentialsMismatch_and(body, e) ==
    body.username # e.ADMIN_USERNAME /\ body.password # e.ADMIN_PASSWORD

\* username !== process.env.ADMIN_USERNAME || password !== process.env.ADMIN_PASSWORD
credentialsMismatch(body, e) ==
    body.username # e.ADMIN_USERNAME \/ body.password # e.ADMIN_PASSWORD

\* the request arrives: validation, the credential comparison, `await pool.connect()`
Users(b) ==
    /\ alive
    /\ LET errors == validateAdmin(b)
           body == sanitizeAdmin(b)
           \* raw: the body as sent; after: the registrations already
           \* answered 200 when this request arrived
           r == [raw |-> b,
                 after |-> {k \in 1..Len(reg) : reg[k].res.status = 200}]
       IN  IF errors # {}
           THEN adm' = Append(adm, r @@ [pc |-> "done",
                         res |-> [ListingJson(400, "Validation failed") EXCEPT !.details = errors]])
           ELSE IF credentialsMismatch(body, env)
           THEN adm' = Append(adm, r @@ [pc |-> "done",
                         res |-> ListingJson(401, "Unauthorized")])
           ELSE adm' = Append(adm, r @@ [pc |-> "connect", res |-> NoListing])
    /\ UNCHANGED <<user_profiles, id_seq, checkedOut, alive, reg, hsVars, env, stVars>>

UsersConnected(i, outcome) ==
    /\ alive
    /\ i \in 1..Len(adm)
    /\ adm[i].pc = "connect"
    /\ CASE outcome = "ok" ->
              /\ adm' = [adm EXCEPT ![i].pc = "select"]
              /\ checkedOut' = checkedOut + 1
              /\ UNCHANGED alive
         [] outcome = "exit" ->
              /\ adm' = [adm EXCEPT ![i].pc = "escaped"]
              /\ alive' = FALSE
              /\ UNCHANGED checkedOut
         [] outcome = "default_handler" ->
              /\ adm' = [adm EXCEPT ![i].pc = "escaped",
                           ![i].res = [ListingJson(500, "Internal Server Error")
                                          EXCEPT !.ctype = "html"]]
              /\ UNCHANGED <<checkedOut, alive>>
    /\ UNCHANGED <<user_profiles, id_seq, reg, hsVars, env, stVars>>

UsersSelected(i, outcome) ==
    /\ alive
    /\ i \in 1..Len(adm)
    /\ adm[i].pc = "select"
    /\ IF outcome = "ok"
       THEN \E rows \in orderByCreatedAtDesc(user_profiles) :
               adm' = [adm EXCEPT ![i].pc = "done",
                         ![i].res = [ListingJson(200, "") EXCEPT !.users = rows,
                                                               !.count = Len(rows)]]
       ELSE adm' = [adm EXCEPT ![i].pc = "done", ![i].res = ListingJson(500, "db error")]
    /\ checkedOut' = release(checkedOut)
    /\ UNCHANGED <<user_profiles, id_seq, alive, reg, hsVars, env, stVars>>

(***************************************************************************)
(* The OAuth 1.0a handshake (routes/users.js, config/twitter.js).          *)
(* Tokens, secrets and verifiers are opaque strings; "" stands for a value *)
(* that is missing (URLSearchParams.get gives null, a query parameter is   *)
(* undefined) or empty: the code treats all of these alike, as falsy.      *)
(***************************************************************************)
TWITTER_REQUEST_TOKEN_URL == "https://api.twitter.com/oauth/request_token"
TWITTER_AUTHORIZE_URL == "https://api.twitter.com/oauth/authorize"
TWITTER_ACCESS_TOKEN_URL == "https://api.twitter.com/oauth/access_token"
TWITTER_USER_INFO_URL == "https://api.twitter.com/1.1/account/verify_credentials.json"
FRONTEND_URL == "http://localhost:5173"

RequestTokens == {"t1", "t2"}

\* what the provider may answer to the request-token call
RequestTokenResponses ==
    { [kind |-> "throws", oauth_token |-> "", oauth_token_secret |-> ""],
      [kind |-> "not_ok", oauth_token |-> "", oauth_token_secret |-> ""] }
    \cup
    { [kind |-> "ok", oauth_token |-> "t1", oauth_token_secret |-> "s1"],
      [kind |-> "ok", oauth_token |-> "t1", oauth_token_secret |-> "s2"],
      [kind |-> "ok", oauth_token |-> "t2", oauth_token_secret |-> "s1"],
      [kind |-> "ok", oauth_token |-> "", oauth_token_secret |-> "s1"],
      [kind |-> "ok", oauth_token |-> "t1", oauth_token_secret |-> ""] }

\* what the provider may answer to the access-token call
AccessTokenResponses ==
    { [kind |-> "throws", oauth_token |-> "", oauth_token_secret |-> ""],
      [kind |-> "not_ok", oauth_token |-> "", oauth_token_secret |-> ""],
      [kind |-> "ok", oauth_token |-> "a1", oauth_token_secret |-> "as1"],
      [kind |-> "ok", oauth_token |-> "", oauth_token_secret |-> "as1"],
      [kind |-> "ok", oauth_token |-> "a1", oauth_token_secret |-> ""] }

NoUser == [id_str |-> ""]

\* what the provider may answer to the profile call ("bad_json": a 2xx answer
\* whose body response.json() cannot decode)
ProfileResponses ==
    { [kind |-> "throws", user |-> NoUser],
      [kind |-> "not_ok", user |-> NoUser],
      [kind |-> "bad_json", user |-> NoUser],
      [kind |-> "ok", user |-> [id_str |-> "42", screen_name |-> "alice", name |-> "Alice",
                                profile_image_url_https |-> "https://pbs.twimg.com/a.png"]] }

\* the query strings of the callback requests
CallbackQueries ==
    { [oauth_token |-> "t1", oauth_verifier |-> "v"],
      [oauth_token |-> "t2", oauth_verifier |-> "v"],
      [oauth_token |-> "t1", oauth_verifier |-> ""],
      [oauth_token |-> "", oauth_verifier |-> "v"] }

\* an outbound call: its endpoint, the token credential it is signed with
\* (key "" when oauth.authorize gets no token) and its parameters
Call(url, method, key, secret, data) ==
    [url |-> url, method |-> method, key |-> key, secret |-> secret, data |-> data]

NoAnswer == [status |-> 0, ctype |-> "none", error |-> "", auth_url |-> ""]

JsonError(status, error) ==
    [status |-> status, ctype |-> "json", error |-> error, auth_url |-> ""]

\* mutant: the failure is answered the way the begin handler answers it
RedirectError_json(code) ==
    [status |-> 500, ctype |-> "json", location |-> "", error |-> code, params |-> <<>>]

\* res.redirect(`${FRONTEND_URL}?error=<code>`)
RedirectError(code) ==
    [status |-> 302, ctype |-> "redirect", location |-> FRONTEND_URL \o "?error=" \o code,
     error |-> code, params |-> <<>>]

\* res.redirect(`${FRONTEND_URL}?${userParams}`)
RedirectSuccess(userData) ==
    [status |-> 302, ctype |-> "redirect", location |-> FRONTEND_URL \o "?auth=success",
     error |-> "",
     params |-> [auth |-> "success", twitter_id |-> userData.id_str,
                 twitter_username |-> userData.screen_name,
                 twitter_name |-> userData.name,
                 profile_image |-> userData.profile_image_url_https]]

NoRedirect ==
    [status |-> 0, ctype |-> "none", location |-> "", error |-> "", params |-> <<>>]

(***************************************************************************)
(* global.tempTokenStorage                                                 *)
(***************************************************************************)
NoStorage == [defined |-> FALSE, map |-> <<>>]

\* mutant: a lookup that falls back on the key when there is no entry
storageGet_fallback(storage, key) ==
    IF storage.defined /\ key \in DOMAIN storage.map THEN storage.map[key] ELSE key

\* global.tempTokenStorage?.get(key): "" stands for undefined
storageGet(storage, key) ==
    IF storage.defined /\ key \in DOMAIN storage.map THEN storage.map[key] ELSE ""

\* mutant: global.tempTokenStorage = new Map() at every begin
storageSet_fresh(storage, key, value) ==
    [defined |-> TRUE, map |-> [k \in {key} |-> value]]

\* mutant: set(oauth_token_secret, oauth_token), the arguments swapped
storageSet_swapped(storage, key, value) ==
    [defined |-> TRUE,
     map |-> [k \in DOMAIN storage.map \cup {value} |->
                 IF k = value THEN key ELSE storage.map[k]]]

\* global.tempTokenStorage = global.tempTokenStorage || new Map(); then .set(key, value)
storageSet(storage, key, value) ==
    [defined |-> TRUE,
     map |-> [k \in DOMAIN storage.map \cup {key} |->
                 IF k = key THEN value ELSE storage.map[k]]]

\* mutant: clear() instead of delete(oauth_token)
storageDelete_clear(storage, key) == [storage EXCEPT !.map = <<>>]

\* mutant: the entry is never removed
storageDelete_never(storage, key) == storage

\* mutant: delete(oauth_token_secret), the value instead of the key
storageDelete_byValue(storage, key) ==
    [storage EXCEPT !.map = [k \in DOMAIN storage.map \ {storage.map[key]} |-> storage.map[k]]]

\* global.tempTokenStorage?.delete(key)
storageDelete(storage, key) ==
    [storage EXCEPT !.map = [k \in DOMAIN storage.map \ {key} |-> storage.map[k]]]

(***************************************************************************)
(* GET /api/auth/twitter (beginHandshake)                                  *)
(***************************************************************************)
\* A URL is the sequence of its pieces: "/" is always a piece of its own, and
\* a piece begins with "api" only if it is the piece "api" ("api.x.io" is
\* <<"api", ".x.io">>), so that the substring "/api" occurs exactly where the
\* piece "/" is followed by the piece "api".
Localhost == <<"http:", "/", "/", "localhost:3001">>

DefaultBackend == <<"https:", "/", "/", "madcatsuite-production-7b53.up.railway.app">>

CallbackPath == <<"/", "api", "/", "auth", "/", "twitter", "/", "callback">>

\* baseUrl.replace(/\/+$/, '')
RECURSIVE stripTrailingSlashes(_)
stripTrailingSlashes(u) ==
    IF Len(u) > 0 /\ u[Len(u)] = "/"
    THEN stripTrailingSlashes(SubSeq(u, 1, Len(u) - 1))
    ELSE u

\* the places where "/api" occurs in u
apiAt(u) == {k \in 1..Len(u) - 1 : u[k] = "/" /\ u[k + 1] = "api"}

\* baseUrl.includes('/api')
includesApi(u) == apiAt(u) # {}

\* baseUrl.split('/api')[0]: what precedes the first occurrence
splitApiFirst(u) ==
    LET first == CHOOSE k \in apiAt(u) : \A l \in apiAt(u) : k <= l
    IN  SubSeq(u, 1, first - 1)

\* the base URL the handler computes from NODE_ENV and BACKEND_URL
baseUrl(e) ==
    LET start == IF e.NODE_ENV = "production"
                 THEN IF Falsy(e.BACKEND_URL) THEN DefaultBackend ELSE e.BACKEND_URL
                 ELSE Localhost
        cleaned == stripTrailingSlashes(start)
    IN  IF includesApi(cleaned) THEN splitApiFirst(cleaned) ELSE cleaned

\* `${baseUrl}/api/auth/twitter/callback`
callbackUrl(e) == baseUrl(e) \o CallbackPath

authUrl(oauth_token) == TWITTER_AUTHORIZE_URL \o "?oauth_token=" \o oauth_token

\* mutant: the check of the parsed response rejects only when both are missing
missingTokenField_and(token, secret) == token = "" /\ secret = ""

\* `!oauth_token || !oauth_token_secret` (and the same test of the access token)
missingTokenField(token, secret) == token = "" \/ secret = ""

\* mutant: the handler does not look at `oauth` before it goes on
AuthTwitter_noCredentialCheck ==
    /\ alive
    /\ begins' = Append(begins,
               [pc |-> "request_token",
                calls |-> <<Call(TWITTER_REQUEST_TOKEN_URL, "POST", "", "",
                                 [oauth_callback |-> callbackUrl(env)])>>,
                got |-> [kind |-> "none", oauth_token |-> "", oauth_token_secret |-> ""],
                res |-> NoAnswer])
    /\ UNCHANGED <<dbVars, alive, oauth, tempTokenStorage, stores, cbs, env>>

\* the request arrives; the handler runs to `await fetch(TWITTER_REQUEST_TOKEN_URL)`
AuthTwitter ==
    /\ alive
    /\ IF ~oauth
       THEN begins' = Append(begins,
               [pc |-> "done", calls |-> <<>>,
                got |-> [kind |-> "none", oauth_token |-> "", oauth_token_secret |-> ""],
                res |-> JsonError(500, "Twitter API credentials not configured. Please add TWITTER_API_KEY and TWITTER_API_SECRET to your environment variables.")])
       ELSE begins' = Append(begins,
               [pc |-> "request_token",
                \* oauth.authorize(requestData): no token credential
                calls |-> <<Call(TWITTER_REQUEST_TOKEN_URL, "POST", "", "",
                                 [oauth_callback |-> callbackUrl(env)])>>,
                got |-> [kind |-> "none", oauth_token |-> "", oauth_token_secret |-> ""],
                res |-> NoAnswer])
    /\ UNCHANGED <<dbVars, alive, oauth, tempTokenStorage, stores, cbs, env>>

\* the request-token call settles; the handler runs to its response
AuthTwitterFetched(i, resp) ==
    /\ alive
    /\ i \in 1..Len(begins)
    /\ begins[i].pc = "request_token"
    /\ LET oauth_token == resp.oauth_token
           oauth_token_secret == resp.oauth_token_secret
       IN  CASE resp.kind = "throws" ->
                  /\ begins' = [begins EXCEPT ![i].pc = "done", ![i].got = resp,
                                   ![i].res = JsonError(500, "request to provider failed")]
                  /\ UNCHANGED <<tempTokenStorage, stores>>
             [] resp.kind = "not_ok" ->
                  /\ begins' = [begins EXCEPT ![i].pc = "done", ![i].got = resp,
                                   ![i].res = JsonError(500, "Failed to get request token")]
                  /\ UNCHANGED <<tempTokenStorage, stores>>
             [] resp.kind = "ok" /\ missingTokenField(oauth_token, oauth_token_secret) ->
                  /\ begins' = [begins EXCEPT ![i].pc = "done", ![i].got = resp,
                                   ![i].res = JsonError(500, "Invalid response from Twitter")]
                  /\ UNCHANGED <<tempTokenStorage, stores>>
             [] OTHER ->
                  /\ tempTokenStorage' = storageSet(tempTokenStorage, oauth_token,
                                                    oauth_token_secret)
                  /\ stores' = [stores EXCEPT ![oauth_token] = @ + 1]
                  /\ begins' = [begins EXCEPT ![i].pc = "done", ![i].got = resp,
                                   ![i].res = [status |-> 200, ctype |-> "json", error |-> "",
                                               auth_url |-> authUrl(oauth_token)]]
    /\ UNCHANGED <<dbVars, alive, oauth, cbs, env>>

(***************************************************************************)
(* GET /api/auth/twitter/callback (completeHandshake)                      *)
(***************************************************************************)
\* the request arrives; the handler runs to `await fetch(TWITTER_ACCESS_TOKEN_URL)`
\* stored: how many times the cache had stored the token when the request
\* arrived; held: whether the cache held an entry for the token then;
\* consumed: which of the stored entries the request took (0: none);
\* access, profile: how the two provider calls ended; got: the answer to the
\* access-token call
Callback(q) ==
    /\ alive
    /\ LET oauth_token == q.oauth_token
           oauth_verifier == q.oauth_verifier
           oauth_token_secret == storageGet(tempTokenStorage, oauth_token)
           r == [query |-> q, secret |-> "", calls |-> <<>>, consumed |-> 0,
                 stored |-> IF oauth_token \in RequestTokens THEN stores[oauth_token] ELSE 0,
                 held |-> /\ tempTokenStorage.defined
                          /\ oauth_token \in DOMAIN tempTokenStorage.map,
                 access |-> "none", profile |-> "none",
                 got |-> [kind |-> "none", oauth_token |-> "", oauth_token_secret |-> ""]]
       IN  IF oauth_token = "" \/ oauth_verifier = ""
           THEN /\ cbs' = Append(cbs, r @@ [pc |-> "done",
                                           res |-> RedirectError("missing_oauth_params")])
                /\ UNCHANGED tempTokenStorage
           ELSE IF oauth_token_secret = ""
           THEN /\ cbs' = Append(cbs, r @@ [pc |-> "done",
                                           res |-> RedirectError("invalid_token")])
                /\ UNCHANGED tempTokenStorage
           ELSE /\ tempTokenStorage' = storageDelete(tempTokenStorage, oauth_token)
                /\ IF ~oauth
                   THEN \* oauth is null: oauth.authorize throws a TypeError
                        cbs' = Append(cbs,
                                 [r EXCEPT !.secret = oauth_token_secret,
                                           !.consumed = stores[oauth_token]]
                                 @@ [pc |-> "done", res |-> RedirectError("callback_failed")])
                   ELSE cbs' = Append(cbs,
                                 [r EXCEPT !.secret = oauth_token_secret,
                                           !.consumed = stores[oauth_token],
                                           !.calls = <<Call(TWITTER_ACCESS_TOKEN_URL, "POST",
                                                            oauth_token, oauth_token_secret,
                                                            [oauth_verifier |-> oauth_verifier])>>]
                                 @@ [pc |-> "access_token", res |-> NoRedirect])
    /\ UNCHANGED <<dbVars, alive, oauth, stores, begins, env>>

\* mutant: the handler does not test response.ok and parses whatever came
accessTokenError_noOkCheck(resp) ==
    CASE resp.kind = "throws" -> "callback_failed"
      [] missingTokenField(resp.oauth_token, resp.oauth_token_secret) -> "invalid_access_token"
      [] OTHER -> ""

\* mutant: the parsed access token is used without testing its two fields
accessTokenError_noFieldCheck(resp) ==
    CASE resp.kind = "throws" -> "callback_failed"
      [] resp.kind = "not_ok" -> "access_token_failed"
      [] OTHER -> ""

\* how the handler takes the outcome of the access-token call: the error code
\* it redirects with, or "" when it goes on to the profile call
accessTokenError(resp) ==
    CASE resp.kind = "throws" -> "callback_failed"
      [] resp.kind = "not_ok" -> "access_token_failed"
      [] missingTokenField(resp.oauth_token, resp.oauth_token_secret) -> "invalid_access_token"
      [] OTHER -> ""

\* the access-token call settles; the handler answers or runs to
\* `await fetch(TWITTER_USER_INFO_URL)`
CallbackAccessFetched(i, resp) ==
    /\ alive
    /\ i \in 1..Len(cbs)
    /\ cbs[i].pc = "access_token"
    /\ LET access_token == resp.oauth_token
           access_token_secret == resp.oauth_token_secret
           code == accessTokenError(resp)
       IN  IF code # ""
           THEN cbs' = [cbs EXCEPT ![i].pc = "done", ![i].access = resp.kind,
                           ![i].got = resp, ![i].res = RedirectError(code)]
           ELSE   cbs' = [cbs EXCEPT ![i].pc = "profile", ![i].access = resp.kind,
                             ![i].got = resp,
                             ![i].calls = Append(@, Call(TWITTER_USER_INFO_URL, "GET",
                                                         access_token, access_token_secret,
                                                         <<>>))]
    /\ UNCHANGED <<dbVars, alive, oauth, tempTokenStorage, stores, begins, env>>

\* mutant: a non-2xx profile answer is thrown instead of being redirected
profileError_thrown(resp) ==
    CASE resp.kind \in {"throws", "bad_json", "not_ok"} -> "callback_failed"
      [] OTHER -> ""

\* how the handler takes the outcome of the profile call: the error code it
\* redirects with, or "" when it redirects with the profile
profileError(resp) ==
    CASE resp.kind \in {"throws", "bad_json"} -> "callback_failed"
      [] resp.kind = "not_ok" -> "user_info_failed"
      [] OTHER -> ""

\* mutant: the callback stores the profile it fetched
CallbackProfileFetched_persist(i, resp) ==
    /\ alive
    /\ i \in 1..Len(cbs)
    /\ cbs[i].pc = "profile"
    /\ LET code == profileError(resp)
       IN  IF code # ""
           THEN /\ cbs' = [cbs EXCEPT ![i].pc = "done", ![i].profile = resp.kind,
                              ![i].res = RedirectError(code)]
                /\ UNCHANGED <<user_profiles, id_seq>>
           ELSE /\ cbs' = [cbs EXCEPT ![i].pc = "done", ![i].profile = resp.kind,
                              ![i].res = RedirectSuccess(resp.user)]
                /\ id_seq' = id_seq + 1
                /\ user_profiles' = Append(user_profiles,
                      newRow(id_seq + 1, Body(<<"4", "2">>, Absent, Absent),
                             lastTime(user_profiles) + 1))
    /\ UNCHANGED <<checkedOut, reg, adm, stVars, alive, oauth, tempTokenStorage, stores,
                   begins, env>>

\* the profile call settles; the handler answers
CallbackProfileFetched(i, resp) ==
    /\ alive
    /\ i \in 1..Len(cbs)
    /\ cbs[i].pc = "profile"
    /\ LET code == profileError(resp)
       IN  IF code # ""
           THEN cbs' = [cbs EXCEPT ![i].pc = "done", ![i].profile = resp.kind,
                           ![i].res = RedirectError(code)]
           ELSE cbs' = [cbs EXCEPT ![i].pc = "done", ![i].profile = resp.kind,
                           ![i].res = RedirectSuccess(resp.user)]
    /\ UNCHANGED <<dbVars, alive, oauth, tempTokenStorage, stores, begins, env>>

(***************************************************************************)
(* POST /api/status                                                        *)
(***************************************************************************)
\* req.body.client_name: a name, or absent
ClientNames == { "c", "undefined" }

NoCheck == [id |-> 0, client_name |-> "", timestamp |-> 0]

NoStatus == [status |-> 0, ctype |-> "none", error |-> "", row |-> NoCheck, rows |-> <<>>]

StatusJson(status, error) ==
    [status |-> status, ctype |-> "json", error |-> error, row |-> NoCheck, rows |-> <<>>]

\* the request arrives and waits at `await pool.connect()`
StatusPost(name) ==
    /\ alive
    /\ sts' = Append(sts, [method |-> "POST", client_name |-> name,
                           pc |-> "connect", res |-> NoStatus])
    /\ UNCHANGED <<user_profiles, id_seq, checkedOut, alive, reg, adm, hsVars, env,
                   status_checks>>

StatusPostConnected(i, outcome) ==
    /\ alive
    /\ i \in 1..Len(sts)
    /\ sts[i].pc = "connect"
    /\ sts[i].method = "POST"
    /\ CASE outcome = "ok" ->
              /\ sts' = [sts EXCEPT ![i].pc = "insert"]
              /\ checkedOut' = checkedOut + 1
              /\ UNCHANGED alive
         [] outcome = "exit" ->
              /\ sts' = [sts EXCEPT ![i].pc = "escaped"]
              /\ alive' = FALSE
              /\ UNCHANGED checkedOut
         [] outcome = "default_handler" ->
              /\ sts' = [sts EXCEPT ![i].pc = "escaped",
                           ![i].res = [StatusJson(500, "Internal Server Error")
                                          EXCEPT !.ctype = "html"]]
              /\ UNCHANGED <<checkedOut, alive>>
    /\ UNCHANGED <<user_profiles, id_seq, reg, adm, hsVars, env, status_checks>>

\* the INSERT settles: client_name is NOT NULL, so an absent name fails it
StatusPostInserted(i, outcome) ==
    /\ alive
    /\ i \in 1..Len(sts)
    /\ sts[i].pc = "insert"
    /\ IF outcome = "ok" /\ sts[i].client_name # "undefined"
       THEN LET row == [id |-> Len(status_checks) + 1,
                        client_name |-> sts[i].client_name,
                        timestamp |-> Len(status_checks) + 1]
            IN  /\ status_checks' = Append(status_checks, row)
                /\ sts' = [sts EXCEPT ![i].pc = "done",
                             ![i].res = [StatusJson(200, "") EXCEPT !.row = row]]
       ELSE /\ sts' = [sts EXCEPT ![i].pc = "done", ![i].res = StatusJson(500, "db error")]
            /\ UNCHANGED status_checks
    /\ checkedOut' = release(checkedOut)
    /\ UNCHANGED <<user_profiles, id_seq, alive, reg, adm, hsVars, env>>

(***************************************************************************)
(* GET /api/status                                                         *)
(***************************************************************************)
\* the request arrives and waits at `await pool.connect()`
StatusGet ==
    /\ alive
    /\ sts' = Append(sts, [method |-> "GET", client_name |-> "undefined",
                           pc |-> "connect", res |-> NoStatus])
    /\ UNCHANGED <<user_profiles, id_seq, checkedOut, alive, reg, adm, hsVars, env,
                   status_checks>>

StatusGetConnected(i, outcome) ==
    /\ alive
    /\ i \in 1..Len(sts)
    /\ sts[i].pc = "connect"
    /\ sts[i].method = "GET"
    /\ CASE outcome = "ok" ->
              /\ sts' = [sts EXCEPT ![i].pc = "select"]
              /\ checkedOut' = checkedOut + 1
              /\ UNCHANGED alive
         [] outcome = "exit" ->
              /\ sts' = [sts EXCEPT ![i].pc = "escaped"]
              /\ alive' = FALSE
              /\ UNCHANGED checkedOut
         [] outcome = "default_handler" ->
              /\ sts' = [sts EXCEPT ![i].pc = "escaped",
                           ![i].res = [StatusJson(500, "Internal Server Error")
                                          EXCEPT !.ctype = "html"]]
              /\ UNCHANGED <<checkedOut, alive>>
    /\ UNCHANGED <<user_profiles, id_seq, reg, adm, hsVars, env, status_checks>>

\* SELECT * FROM status_checks settles
StatusGetSelected(i, outcome) ==
    /\ alive
    /\ i \in 1..Len(sts)
    /\ sts[i].pc = "select"
    /\ IF outcome = "ok"
       THEN sts' = [sts EXCEPT ![i].pc = "done",
                      ![i].res = [StatusJson(200, "") EXCEPT !.rows = status_checks]]
       ELSE sts' = [sts EXCEPT ![i].pc = "done", ![i].res = StatusJson(500, "db error")]
    /\ checkedOut' = release(checkedOut)
    /\ UNCHANGED <<user_profiles, id_seq, alive, reg, adm, hsVars, env, status_checks>>

(***************************************************************************)
(* GET /api/top-raiders, /api/top-whales, /api/loyalty-ranking             *)
(***************************************************************************)
Entry(rank, raider, score) == [rank |-> rank, raider |-> raider, score |-> score]

\* mutant: the last record of the list is missing
TopRaiders_nine ==
    << Entry(1, "RaiderAlpha", 980), Entry(2, "RaiderBeta", 870),
       Entry(3, "RaiderGamma", 820), Entry(4, "RaiderDelta", 800),
       Entry(5, "RaiderEpsilon", 780), Entry(6, "RaiderZeta", 760),
       Entry(7, "RaiderEta", 740), Entry(8, "RaiderTheta", 720),
       Entry(9, "RaiderIota", 700) >>

TopRaiders ==
    << Entry(1, "RaiderAlpha", 980), Entry(2, "RaiderBeta", 870),
       Entry(3, "RaiderGamma", 820), Entry(4, "RaiderDelta", 800),
       Entry(5, "RaiderEpsilon", 780), Entry(6, "RaiderZeta", 760),
       Entry(7, "RaiderEta", 740), Entry(8, "RaiderTheta", 720),
       Entry(9, "RaiderIota", 700), Entry(10, "RaiderKappa", 680) >>

TopWhales ==
    << Entry(1, "WhaleKing", 15000), Entry(2, "WhaleQueen", 12000),
       Entry(3, "WhalePrince", 11000), Entry(4, "WhaleDuke", 10500),
       Entry(5, "WhaleBaron", 10000), Entry(6, "WhaleKnight", 9500),
       Entry(7, "WhaleSquire", 9000), Entry(8, "WhaleLord", 8500),
       Entry(9, "WhaleMaster", 8000), Entry(10, "WhaleRookie", 7500) >>

LoyaltyRanking ==
    << Entry(1, "LoyalLion", 365), Entry(2, "FaithfulFox", 340),
       Entry(3, "SteadyStag", 320), Entry(4, "DevotedDog", 310),
       Entry(5, "TrueTiger", 300), Entry(6, "ConstantCat", 290),
       Entry(7, "ReliableRabbit", 280), Entry(8, "PersistentPenguin", 270),
       Entry(9, "EnduringEagle", 260), Entry(10, "UnwaveringUrial", 250) >>

\* res.json({ data: [...] })
BoardJson(path, data) == [path |-> path, status |-> 200, error |-> "", data |-> data]

GetTopRaiders ==
    /\ alive
    /\ boards' = Append(boards, BoardJson("/top-raiders", TopRaiders))
    /\ UNCHANGED <<dbVars, alive, hsVars, env, authHits>>

GetTopWhales ==
    /\ alive
    /\ boards' = Append(boards, BoardJson("/top-whales", TopWhales))
    /\ UNCHANGED <<dbVars, alive, hsVars, env, authHits>>

GetLoyaltyRanking ==
    /\ alive
    /\ boards' = Append(boards, BoardJson("/loyalty-ranking", LoyaltyRanking))
    /\ UNCHANGED <<dbVars, alive, hsVars, env, authHits>>

(***************************************************************************)
(* Specifications                                                          *)
(***************************************************************************)
Init ==
    /\ env \in Envs
    /\ user_profiles = <<>>
    /\ id_seq = 0
    /\ checkedOut = 0
    /\ alive = TRUE
    /\ reg = <<>>
    /\ adm = <<>>
    \* server.js calls initializeTwitterConfig() before it listens
    /\ oauth = initializeTwitterConfig(env)
    /\ tempTokenStorage = NoStorage
    /\ stores = [t \in RequestTokens |-> 0]
    /\ begins = <<>>
    /\ cbs = <<>>
    /\ authHits = 0
    /\ boards = <<>>
    /\ generalHits = 0
    /\ status_checks = <<>>
    /\ sts = <<>>

QueryOutcomes == {"ok", "error"}
ConnectOutcomes == {"ok"} \cup EscapeOutcomes

\* POST /api/register, at most n requests
RegisterSteps(n) ==
    /\ UNCHANGED <<authHits, boards, generalHits>>
    /\ \/ \E b \in RegisterBodies : Len(reg) < n /\ Register(b)
       \/ \E i \in 1..Len(reg), o \in ConnectOutcomes : RegisterConnected(i, o)
       \/ \E i \in 1..Len(reg), o \in QueryOutcomes : RegisterSelected(i, o)
       \/ \E i \in 1..Len(reg), o \in QueryOutcomes, now \in 1..Len(user_profiles) + 1 :
             RegisterInserted(i, o, now)

\* POST /api/users, at most n requests
UsersSteps(n) ==
    /\ UNCHANGED <<authHits, boards, generalHits>>
    /\ \/ \E b \in AdminBodies : Len(adm) < n /\ Users(b)
       \/ \E i \in 1..Len(adm), o \in ConnectOutcomes : UsersConnected(i, o)
       \/ \E i \in 1..Len(adm), o \in QueryOutcomes : UsersSelected(i, o)

\* POST and GET /api/status, at most n requests
StatusSteps(n) ==
    /\ UNCHANGED <<authHits, boards, generalHits>>
    /\ \/ \E name \in ClientNames : Len(sts) < n /\ StatusPost(name)
       \/ \E i \in 1..Len(sts), o \in ConnectOutcomes : StatusPostConnected(i, o)
       \/ \E i \in 1..Len(sts), o \in QueryOutcomes : StatusPostInserted(i, o)
       \/ Len(sts) < n /\ StatusGet
       \/ \E i \in 1..Len(sts), o \in ConnectOutcomes : StatusGetConnected(i, o)
       \/ \E i \in 1..Len(sts), o \in QueryOutcomes : StatusGetSelected(i, o)

\* The registration endpoint alone, from the empty table.  The provider
\* credentials play no part in it.
InitRegister == Init /\ oauth

NextRegister == RegisterSteps(MaxRegister)

SpecRegister == InitRegister /\ [][NextRegister]_vars

\* Registrations that collide with one earlier registration, each on a
\* different one of the three unique fields, and with each other on none.
DuplicateBodies ==
    { Body(<<"1">>, <<"a">>, Wallet("a")),
      Body(<<"1">>, <<"b">>, Wallet("b")),
      Body(<<"2">>, <<"a">>, Wallet("c")),
      Body(<<"3">>, <<"c">>, Wallet("a")) }

DuplicateSteps(n) ==
    /\ UNCHANGED <<authHits, boards, generalHits>>
    /\ \/ \E b \in DuplicateBodies : Len(reg) < n /\ Register(b)
       \/ \E i \in 1..Len(reg), o \in ConnectOutcomes : RegisterConnected(i, o)
       \/ \E i \in 1..Len(reg), o \in QueryOutcomes : RegisterSelected(i, o)
       \/ \E i \in 1..Len(reg), o \in QueryOutcomes, now \in 1..Len(user_profiles) + 1 :
             RegisterInserted(i, o, now)

NextDuplicate == DuplicateSteps(MaxDuplicate)

SpecDuplicate == InitRegister /\ [][NextDuplicate]_vars

\* The validator and the registration it guards: bodies that vary one field,
\* over a table that is empty or holds one row under the handle "a".
InitValidation ==
    /\ env \in Envs
    /\ oauth = initializeTwitterConfig(env)
    /\ oauth
    /\ user_profiles \in
          { <<>>, <<newRow(1, Body(<<"9">>, <<"a">>, Wallet("9")), 1)>> }
    /\ id_seq = Len(user_profiles)
    /\ checkedOut = 0
    /\ alive = TRUE
    /\ reg = <<>>
    /\ adm = <<>>
    /\ tempTokenStorage = NoStorage
    /\ stores = [t \in RequestTokens |-> 0]
    /\ begins = <<>>
    /\ cbs = <<>>
    /\ authHits = 0
    /\ boards = <<>>
    /\ generalHits = 0
    /\ status_checks = <<>>
    /\ sts = <<>>

ValidationSteps(n) ==
    /\ UNCHANGED <<authHits, boards, generalHits>>
    /\ \/ \E b \in ValidationBodies : Len(reg) < n /\ Register(b)
       \/ \E i \in 1..Len(reg), o \in ConnectOutcomes : RegisterConnected(i, o)
       \/ \E i \in 1..Len(reg), o \in QueryOutcomes : RegisterSelected(i, o)
       \/ \E i \in 1..Len(reg), o \in QueryOutcomes, now \in 1..Len(user_profiles) + 1 :
             RegisterInserted(i, o, now)

NextValidation == ValidationSteps(MaxValidated)

SpecValidation == InitValidation /\ [][NextValidation]_vars

\* The admin listing alone, for every configuration of the admin secrets,
\* over a table that is empty or holds rows with distinct or equal created_at.
AdminTables ==
    LET r1 == newRow(1, Body(<<"1">>, <<"a">>, Wallet("a")), 1)
        r2 == newRow(2, Body(<<"2">>, <<"b">>, Wallet("b")), 2)
        r3 == newRow(3, Body(<<"3">>, <<"c">>, Wallet("c")), 2)
    IN  { <<>>, <<r1, r2>>, <<r1, r2, r3>> }

InitAdmin ==
    /\ env \in AdminEnvs
    /\ oauth = initializeTwitterConfig(env)
    /\ user_profiles \in AdminTables
    /\ id_seq = Len(user_profiles)
    /\ checkedOut = 0
    /\ alive = TRUE
    /\ reg = <<>>
    /\ adm = <<>>
    /\ tempTokenStorage = NoStorage
    /\ stores = [t \in RequestTokens |-> 0]
    /\ begins = <<>>
    /\ cbs = <<>>
    /\ authHits = 0
    /\ boards = <<>>
    /\ generalHits = 0
    /\ status_checks = <<>>
    /\ sts = <<>>

AdminSteps(n) ==
    /\ UNCHANGED <<authHits, boards, generalHits>>
    /\ \/ \E b \in AdminRequestBodies : Len(adm) < n /\ Users(b)
       \/ \E i \in 1..Len(adm), o \in ConnectOutcomes : UsersConnected(i, o)
       \/ \E i \in 1..Len(adm), o \in QueryOutcomes : UsersSelected(i, o)

NextAdmin == AdminSteps(MaxAdmin)

SpecAdmin == InitAdmin /\ [][NextAdmin]_vars

\* Registration and admin listing, over a table that may hold a row written
\* before the process started.
InitTables ==
    { <<>>, <<newRow(1, sanitizeRegistration(Body(<<"1">>, <<"a">>, Wallet("a"))), 1)>> }

InitListing ==
    /\ env \in Envs
    /\ oauth = initializeTwitterConfig(env)
    /\ oauth
    /\ user_profiles \in InitTables
    /\ id_seq = Len(user_profiles)
    /\ checkedOut = 0
    /\ alive = TRUE
    /\ reg = <<>>
    /\ adm = <<>>
    /\ tempTokenStorage = NoStorage
    /\ stores = [t \in RequestTokens |-> 0]
    /\ begins = <<>>
    /\ cbs = <<>>
    /\ authHits = 0
    /\ boards = <<>>
    /\ generalHits = 0
    /\ status_checks = <<>>
    /\ sts = <<>>

NextListing == RegisterSteps(MaxListRegister) \/ UsersSteps(MaxListing)

SpecListing == InitListing /\ [][NextListing]_vars

\* the provider answers an outstanding call of a handshake request
RequestTokenSettles ==
    \E i \in 1..Len(begins), resp \in RequestTokenResponses : AuthTwitterFetched(i, resp)

AccessTokenSettles ==
    \E i \in 1..Len(cbs), resp \in AccessTokenResponses : CallbackAccessFetched(i, resp)

ProfileSettles ==
    \E i \in 1..Len(cbs), resp \in ProfileResponses : CallbackProfileFetched(i, resp)

\* The handshake endpoints alone, every request being one that authRateLimit
\* admits (its window is not tracked here).
HandshakeSteps(nb, nc) ==
    /\ UNCHANGED <<authHits, boards, generalHits>>
    /\ \/ Len(begins) < nb /\ AuthTwitter
       \/ RequestTokenSettles
       \/ \E q \in CallbackQueries : Len(cbs) < nc /\ Callback(q)
       \/ AccessTokenSettles
       \/ ProfileSettles

NextHandshake == HandshakeSteps(MaxBegin, MaxCallback)

SpecHandshake == Init /\ [][NextHandshake]_vars

\* The begin of the handshake for the backend URLs a deployment may set:
\* scheme://host, alone or followed by slashes or by a path under /api.
Schemes == { <<"https:">>, <<"http:">> }

Hosts == { <<"app.example.com">>, <<"api", ".example.com">>, <<"my.", "api", ".io:8080">> }

UrlSuffixes ==
    { <<>>, <<"/">>, <<"/", "/">>, <<"/", "api">>, <<"/", "api", "/">>,
      <<"/", "api", "/", "v1">>, <<"/", "api", "-docs">> }

Origin(scheme, host) == scheme \o <<"/", "/">> \o host

UrlEnvs ==
    { [ADMIN_USERNAME |-> AdminName, ADMIN_PASSWORD |-> AdminPass,
       TWITTER_API_KEY |-> <<"k">>, TWITTER_API_SECRET |-> <<"k">>,
       NODE_ENV |-> n, BACKEND_URL |-> u] :
         n \in {"production", "development"},
         u \in {Origin(sc, h) \o x : sc \in Schemes, h \in Hosts, x \in UrlSuffixes}
               \cup {Absent} }

InitCallbackUrl ==
    /\ env \in UrlEnvs
    /\ oauth = initializeTwitterConfig(env)
    /\ user_profiles = <<>>
    /\ id_seq = 0
    /\ checkedOut = 0
    /\ alive = TRUE
    /\ reg = <<>>
    /\ adm = <<>>
    /\ tempTokenStorage = NoStorage
    /\ stores = [t \in RequestTokens |-> 0]
    /\ begins = <<>>
    /\ cbs = <<>>
    /\ authHits = 0
    /\ boards = <<>>
    /\ generalHits = 0
    /\ status_checks = <<>>
    /\ sts = <<>>

BeginSteps(n) ==
    /\ UNCHANGED <<authHits, boards, generalHits>>
    /\ \/ Len(begins) < n /\ AuthTwitter
       \/ RequestTokenSettles

NextCallbackUrl == BeginSteps(MaxUrlBegin)

SpecCallbackUrl == InitCallbackUrl /\ [][NextCallbackUrl]_vars

\* The handshake, registration and status endpoints together: at most
\* MaxRequests requests in all, of any mix.
NextSystem ==
    LET room == MaxRequests - (Len(begins) + Len(cbs) + Len(reg) + Len(sts))
    IN  \/ HandshakeSteps(Len(begins) + room, Len(cbs) + room)
        \/ RegisterSteps(Len(reg) + room)
        \/ StatusSteps(Len(sts) + room)

SpecSystem == Init /\ [][NextSystem]_vars

(***************************************************************************)
(* app.use(generalRateLimit) in front of every route                       *)
(***************************************************************************)
\* generalRateLimit: max
GeneralMax == 100

TooManyRequests == "Too many requests, please try again later."

\* a leaderboard request the limiter answered
LimitedBoard(path) ==
    [path |-> path, status |-> 429, error |-> TooManyRequests, data |-> <<>>]

\* mutant: the limiter counts the request and always lets it through
GeneralRateLimit_open(path, handler) ==
    /\ alive
    /\ generalHits' = generalHits + 1
    /\ handler

\* a request to path through the limiter: the hit is counted, and the
\* request reaches its handler unless the count exceeds max
GeneralRateLimit(path, handler) ==
    /\ alive
    /\ generalHits' = generalHits + 1
    /\ IF generalHits + 1 > GeneralMax
       THEN /\ boards' = Append(boards, LimitedBoard(path))
            /\ UNCHANGED <<dbVars, alive, hsVars, env, authHits>>
       ELSE handler

\* windowMs has passed: the limiter's count starts again
GeneralWindowExpires ==
    /\ generalHits > 0
    /\ generalHits' = 0
    /\ UNCHANGED <<dbVars, alive, hsVars, env, authHits, boards>>

\* The window may already have counted requests: requests to routes without
\* state, such as GET /health, leave nothing behind but their count.
InitLeaderboard ==
    /\ env \in Envs
    /\ oauth = initializeTwitterConfig(env)
    /\ oauth
    /\ user_profiles = <<>>
    /\ id_seq = 0
    /\ checkedOut = 0
    /\ alive = TRUE
    /\ reg = <<>>
    /\ adm = <<>>
    /\ tempTokenStorage = NoStorage
    /\ stores = [t \in RequestTokens |-> 0]
    /\ begins = <<>>
    /\ cbs = <<>>
    /\ authHits = 0
    /\ boards = <<>>
    /\ generalHits \in {0, GeneralMax - 2, GeneralMax - 1, GeneralMax}
    /\ status_checks = <<>>
    /\ sts = <<>>

\* The leaderboard routes behind the limiter
LeaderboardSteps(n) ==
    /\ Len(boards) < n
    /\ \/ GeneralRateLimit("/top-raiders", GetTopRaiders)
       \/ GeneralRateLimit("/top-whales", GetTopWhales)
       \/ GeneralRateLimit("/loyalty-ranking", GetLoyaltyRanking)

NextLeaderboard ==
    \/ LeaderboardSteps(MaxLeaderboard)
    \/ GeneralWindowExpires

SpecLeaderboard == InitLeaderboard /\ [][NextLeaderboard]_vars

\* The endpoints that use the database, together: registration, the admin
\* listing and the status checks, at most MaxStorage requests in all.
NextStorage ==
    LET room == MaxStorage - (Len(reg) + Len(adm) + Len(sts))
    IN  \/ RegisterSteps(Len(reg) + room)
        \/ UsersSteps(Len(adm) + room)
        \/ StatusSteps(Len(sts) + room)

SpecStorage == InitRegister /\ [][NextStorage]_vars

(***************************************************************************)
(* app.use('/api/auth', authRateLimit) in front of the handshake routes    *)
(***************************************************************************)
\* authRateLimit: max
AuthMax == 5

\* express-rate-limit answers a request over the limit with status 429 and
\* the configured message object as JSON
TooManyAttempts == "Too many authentication attempts, please try again later."

\* a begin request the limiter answered
LimitedBegin ==
    [pc |-> "done", calls |-> <<>>,
     got |-> [kind |-> "limited", oauth_token |-> "", oauth_token_secret |-> ""],
     res |-> JsonError(429, TooManyAttempts)]

\* a callback request the limiter answered
LimitedCallback(q) ==
    [query |-> q, secret |-> "", calls |-> <<>>, consumed |-> 0,
     stored |-> IF q.oauth_token \in RequestTokens THEN stores[q.oauth_token] ELSE 0,
     held |-> tempTokenStorage.defined /\ q.oauth_token \in DOMAIN tempTokenStorage.map,
     access |-> "none", profile |-> "none",
     got |-> [kind |-> "none", oauth_token |-> "", oauth_token_secret |-> ""],
     pc |-> "done",
     res |-> [status |-> 429, ctype |-> "json", location |-> "",
              error |-> TooManyAttempts, params |-> <<>>]]

\* GET /api/auth/twitter through the limiter: the hit is counted, and the
\* request reaches the handler unless the count exceeds max
AuthRateLimitBegin ==
    /\ alive
    /\ authHits' = authHits + 1
    /\ UNCHANGED <<boards, generalHits>>
    /\ IF authHits + 1 > AuthMax
       THEN /\ begins' = Append(begins, LimitedBegin)
            /\ UNCHANGED <<dbVars, alive, oauth, tempTokenStorage, stores, cbs, env>>
       ELSE AuthTwitter

\* GET /api/auth/twitter/callback through the limiter
AuthRateLimitCallback(q) ==
    /\ alive
    /\ authHits' = authHits + 1
    /\ UNCHANGED <<boards, generalHits>>
    /\ IF authHits + 1 > AuthMax
       THEN /\ cbs' = Append(cbs, LimitedCallback(q))
            /\ UNCHANGED <<dbVars, alive, oauth, tempTokenStorage, stores, begins, env>>
       ELSE Callback(q)

\* windowMs has passed: the limiter's count starts again
WindowExpires ==
    /\ authHits > 0
    /\ authHits' = 0
    /\ UNCHANGED <<boards, generalHits>>
    /\ UNCHANGED <<dbVars, alive, hsVars, env>>

\* The limiter's window may already have counted requests: callback requests
\* without parameters, answered earlier, leave nothing behind but their count.
InitLimited ==
    /\ env \in Envs
    /\ user_profiles = <<>>
    /\ id_seq = 0
    /\ checkedOut = 0
    /\ alive = TRUE
    /\ reg = <<>>
    /\ adm = <<>>
    /\ oauth = initializeTwitterConfig(env)
    /\ tempTokenStorage = NoStorage
    /\ stores = [t \in RequestTokens |-> 0]
    /\ begins = <<>>
    /\ cbs = <<>>
    /\ authHits \in 0..AuthMax
    /\ boards = <<>>
    /\ generalHits = 0
    /\ status_checks = <<>>
    /\ sts = <<>>

\* The handshake endpoints behind the limiter.
LimitedSteps(nb, nc) ==
    \/ Len(begins) < nb /\ AuthRateLimitBegin
    \/ \E q \in CallbackQueries : Len(cbs) < nc /\ AuthRateLimitCallback(q)
    \/ WindowExpires
    \/ UNCHANGED <<authHits, boards, generalHits>> /\ RequestTokenSettles
    \/ UNCHANGED <<authHits, boards, generalHits>> /\ AccessTokenSettles
    \/ UNCHANGED <<authHits, boards, generalHits>> /\ ProfileSettles

NextLimited == LimitedSteps(MaxLimitedBegin, MaxLimitedCallback)

\* every outstanding provider call is answered or fails in the end
SpecLimited ==
    /\ InitLimited
    /\ [][NextLimited]_vars
    /\ WF_vars(UNCHANGED <<authHits, boards, generalHits>> /\ AccessTokenSettles)
    /\ WF_vars(UNCHANGED <<authHits, boards, generalHits>> /\ ProfileSettles)

(***************************************************************************)
(* Properties of registration and listing                                  *)
(***************************************************************************)
DuplicateAtSelect ==
    Json(400, "User already registered with this Twitter, Telegram, or wallet address")

DuplicateAtInsert == Json(400, "User already registered")

\* the registration answered, and no call to the storage failed under it
\* (a unique-constraint violation is the storage at work, not a failure)
Answered(r) == r.pc = "done" /\ r.code \in {"", "23505"}

sharesField(a, b) ==
    \/ a.twitter_id = b.twitter_id
    \/ a.telegram_username = b.telegram_username
    \/ a.wallet_address = b.wallet_address

Registered == {k \in 1..Len(reg) : reg[k].res.status = 200}

\* C1: in every reachable state of user_profiles, whatever POST /api/register
\* requests ran and however they interleaved, no two distinct rows share the
\* twitter_id, the telegram_username or the wallet_address.
C1_UniqueIdentifiers ==
    \A i, j \in 1..Len(user_profiles) :
        i # j => ~sharesField(user_profiles[i], user_profiles[j])

\* two requests that collide on the handle alone raced past the existence
\* check; one row was written and the other request was turned away
C1_Witness ==
    /\ Len(user_profiles) = 1
    /\ \E i, j \in 1..Len(reg) :
          /\ i # j
          /\ reg[i].res.status = 200
          /\ reg[j].res = DuplicateAtInsert
          /\ reg[i].body.telegram_username = reg[j].body.telegram_username
          /\ reg[i].body.twitter_id # reg[j].body.twitter_id
          /\ reg[i].body.wallet_address # reg[j].body.wallet_address

\* C2: a register request that passes validation and that collided with an
\* existing row on exactly one of the three fields when it arrived is answered
\* 400 by the existence check (unless the storage fails under it) and adds no
\* row: the table holds exactly one row per registration answered 200.
C2_OneCollisionRejected ==
    /\ \A i \in 1..Len(reg) :
          (/\ Answered(reg[i])
           /\ passesValidation(reg[i].raw)
           /\ Cardinality(reg[i].collided) = 1)
          => reg[i].res = DuplicateAtSelect
    /\ Len(user_profiles) = Cardinality(Registered)
    /\ \A k \in Registered :
          \E n \in 1..Len(user_profiles) : user_profiles[n] = reg[k].res.user

\* each of the three fields was the single colliding one of some rejected request
C2_Witness ==
    \E i \in 1..Len(reg) :
        /\ reg[i].res = DuplicateAtSelect
        /\ passesValidation(reg[i].raw)
        /\ reg[i].collided = {"telegram_username"}
        /\ Len(user_profiles) = 1

\* C3: of two register requests that share a unique field and both got past
\* the existence SELECT (so both ran it before either INSERT), with no third
\* registration holding one of their fields, exactly one INSERT succeeds with
\* 200 and the other's unique-constraint violation is answered 400, not 500;
\* exactly one row holds their fields.
raced(i, j) ==
    /\ i # j
    /\ reg[i].at = "insert" /\ Answered(reg[i])
    /\ reg[j].at = "insert" /\ Answered(reg[j])
    /\ sharesField(reg[i].body, reg[j].body)
    /\ \A k \in Registered \ {i, j} :
          ~sharesField(reg[k].body, reg[i].body) /\ ~sharesField(reg[k].body, reg[j].body)

C3_RaceReportedAsDuplicate ==
    \A i, j \in 1..Len(reg) :
        raced(i, j) =>
            /\ \/ reg[i].res.status = 200 /\ reg[j].res = DuplicateAtInsert
               \/ reg[j].res.status = 200 /\ reg[i].res = DuplicateAtInsert
            /\ Cardinality({n \in 1..Len(user_profiles) :
                              \/ sharesField(user_profiles[n], reg[i].body)
                              \/ sharesField(user_profiles[n], reg[j].body)}) = 1

C3_Witness == \E i, j \in 1..Len(reg) : raced(i, j)

\* C4: a register request that passes validation and none of whose three
\* fields is held by a row other than its own is answered 200 with the row it
\* persisted (unless the storage fails under it), and every admin listing that
\* arrives afterwards and is answered 200 contains that row.
hasRow(rows, row) == \E n \in 1..Len(rows) : rows[n] = row

freshFor(i) ==
    \A n \in 1..Len(user_profiles) :
        sharesField(user_profiles[n], reg[i].body) => user_profiles[n] = reg[i].res.user

C4_FreshTripleRegisteredAndListed ==
    /\ \A i \in 1..Len(reg) :
          (Answered(reg[i]) /\ passesValidation(reg[i].raw) /\ freshFor(i))
          => /\ reg[i].res.status = 200
             /\ reg[i].res.user = newRow(reg[i].res.user.id, reg[i].body,
                                         reg[i].res.user.created_at)
             /\ hasRow(user_profiles, reg[i].res.user)
    /\ \A l \in 1..Len(adm) :
          adm[l].res.status = 200 =>
              \A i \in adm[l].after : hasRow(adm[l].res.users, reg[i].res.user)

\* a registration into the non-empty table succeeded and a later listing shows it
C4_Witness ==
    \E l \in 1..Len(adm), i \in 1..Len(reg) :
        /\ adm[l].res.status = 200
        /\ i \in adm[l].after
        /\ adm[l].res.count = 2
        /\ hasRow(adm[l].res.users, reg[i].res.user)


(***************************************************************************)
(* Claims about the OAuth handshake                                        *)
(***************************************************************************)
CbTokens == { cbs[i].query.oauth_token : i \in 1..Len(cbs) } \ {""}

\* the callback requests that carried token t and a verifier and arrived
\* while the v-th entry stored under t was the latest one
arrivedFor(t, v) ==
    { i \in 1..Len(cbs) : /\ cbs[i].query.oauth_token = t
                          /\ cbs[i].query.oauth_verifier # ""
                          /\ cbs[i].stored = v }

\* C5: a request token is single-use.  Of the callback requests that present
\* the same token (with a verifier) for the same stored entry, exactly one
\* finds the cached secret and goes on to the access-token call, signed with
\* that token and secret; every other one is redirected with invalid_token
\* and calls nobody; no two requests ever take the same stored entry.
C5_TokenSingleUse ==
    /\ \A i, j \in 1..Len(cbs) :
          (/\ i # j
           /\ cbs[i].query.oauth_token = cbs[j].query.oauth_token
           /\ cbs[i].consumed > 0)
          => cbs[i].consumed # cbs[j].consumed
    /\ \A t \in CbTokens : \A v \in 1..MaxBegin :
          arrivedFor(t, v) # {} =>
             /\ Cardinality({ i \in arrivedFor(t, v) : cbs[i].consumed = v }) = 1
             /\ \A i \in arrivedFor(t, v) :
                   IF cbs[i].consumed = v
                   THEN /\ cbs[i].secret # ""
                        /\ Len(cbs[i].calls) >= 1
                        /\ cbs[i].calls[1].url = TWITTER_ACCESS_TOKEN_URL
                        /\ cbs[i].calls[1].key = t
                        /\ cbs[i].calls[1].secret = cbs[i].secret
                   ELSE /\ cbs[i].consumed = 0
                        /\ cbs[i].res = RedirectError("invalid_token")
                        /\ cbs[i].calls = <<>>

\* two requests with the same token, the second arriving while the first is
\* still waiting for the access-token call
C5_Witness ==
    /\ Len(cbs) = 2
    /\ cbs[1].query = cbs[2].query
    /\ cbs[1].pc = "access_token"
    /\ cbs[1].consumed = 1
    /\ cbs[2].stored = 1
    /\ cbs[2].res = RedirectError("invalid_token")

\* C6: once a callback request has found its token in the cache, the entry it
\* found is gone, whatever the outcome of the request: as long as no later
\* begin has stored the token again, the cache has no entry for it.
C6_EntryRemovedWhateverOutcome ==
    \A i \in 1..Len(cbs) :
       (/\ cbs[i].held
        /\ cbs[i].query.oauth_verifier # ""
        /\ stores[cbs[i].query.oauth_token] = cbs[i].stored)
       => /\ cbs[i].consumed = cbs[i].stored
          /\ storageGet(tempTokenStorage, cbs[i].query.oauth_token) = ""

\* a request that ended with a failed access-token call and one whose profile
\* call threw, each after finding its token, and neither token is cached
C6_Witness ==
    /\ Len(cbs) = 2
    /\ cbs[1].held /\ cbs[2].held
    /\ cbs[1].query.oauth_token # cbs[2].query.oauth_token
    /\ cbs[1].res = RedirectError("access_token_failed")
    /\ cbs[2].profile = "throws"
    /\ cbs[2].res = RedirectError("callback_failed")
    /\ tempTokenStorage.defined
    /\ DOMAIN tempTokenStorage.map = {}


\* a step in which a callback request arrives
CallbackArrives == Len(cbs') = Len(cbs) + 1

\* the request that arrives in this step found no entry for its token and
\* the step leaves the cache as it was
AbsentTokenKeepsCache ==
    (CallbackArrives /\ ~cbs'[Len(cbs')].held) => tempTokenStorage' = tempTokenStorage

\* C7 as stated: every callback request whose token has no entry in the
\* cache is redirected with invalid_token, calls nobody and leaves the cache
\* unchanged.  A request that lacks the verifier (or the token) is answered
\* with missing_oauth_params before the cache is looked at.
C7_AsStated ==
    /\ [](\A i \in 1..Len(cbs) :
             ~cbs[i].held => /\ cbs[i].res = RedirectError("invalid_token")
                             /\ cbs[i].calls = <<>>)
    /\ [][AbsentTokenKeepsCache]_vars

\* C7: a callback request that carries a token and a verifier and whose
\* token has no entry in the cache (never issued, already consumed, or no
\* cache yet) is redirected with invalid_token, calls nobody, and leaves the
\* cache unchanged.
C7_AbsentTokenRejected ==
    /\ [](\A i \in 1..Len(cbs) :
             (/\ cbs[i].query.oauth_token # ""
              /\ cbs[i].query.oauth_verifier # ""
              /\ ~cbs[i].held)
             => /\ cbs[i].pc = "done"
                /\ cbs[i].res = RedirectError("invalid_token")
                /\ cbs[i].calls = <<>>
                /\ cbs[i].consumed = 0)
    /\ [][AbsentTokenKeepsCache]_vars

\* a token already consumed is presented again while another token is cached
C7_Witness ==
    \E i, j \in 1..Len(cbs) :
       /\ i < j
       /\ cbs[i].query = cbs[j].query
       /\ cbs[i].consumed = 1
       /\ cbs[j].query.oauth_verifier # ""
       /\ ~cbs[j].held
       /\ cbs[j].res = RedirectError("invalid_token")
       /\ DOMAIN tempTokenStorage.map # {}

\* begin request i gets, in this step, a 2xx answer with both fields
BeginSucceeds(i) ==
    /\ begins[i].pc = "request_token"
    /\ begins'[i].pc = "done"
    /\ begins'[i].got.kind = "ok"
    /\ begins'[i].got.oauth_token # ""
    /\ begins'[i].got.oauth_token_secret # ""

\* C8: when the request-token call of a begin request returns 2xx with
\* oauth_token and oauth_token_secret, then as the handler answers the cache
\* maps that token to that secret and the answer is 200 with auth_url equal
\* to the authorize URL followed by ?oauth_token= and the token.
C8_BeginStoresAndAnswers ==
    [][\A i \in 1..Len(begins) :
          BeginSucceeds(i) =>
             /\ tempTokenStorage'.defined
             /\ begins'[i].got.oauth_token \in DOMAIN tempTokenStorage'.map
             /\ tempTokenStorage'.map[begins'[i].got.oauth_token]
                   = begins'[i].got.oauth_token_secret
             /\ begins'[i].res.status = 200
             /\ begins'[i].res.ctype = "json"
             /\ begins'[i].res.auth_url =
                   "https://api.twitter.com/oauth/authorize?oauth_token="
                      \o begins'[i].got.oauth_token]_vars

\* two successful begins were given the same token with different secrets,
\* and the cache holds the later secret
C8_Witness ==
    /\ Len(begins) = 2
    /\ begins[1].res.status = 200 /\ begins[2].res.status = 200
    /\ begins[1].got.oauth_token = "t1" /\ begins[2].got.oauth_token = "t1"
    /\ begins[1].got.oauth_token_secret # begins[2].got.oauth_token_secret
    /\ storageGet(tempTokenStorage, "t1") = begins[2].got.oauth_token_secret
    /\ stores["t1"] = 2

\* why a finished begin request failed: credentials not configured, the
\* request-token call threw, returned non-2xx, or lacked a field
beginFailure(b) ==
    \/ b.got.kind \in {"none", "throws", "not_ok"}
    \/ b.got.kind = "ok" /\ (b.got.oauth_token = "" \/ b.got.oauth_token_secret = "")

\* begin request i is answered in this step and the answer is a failure
BeginFails(i) ==
    /\ i \in 1..Len(begins')
    /\ begins'[i].pc = "done"
    /\ i \in 1..Len(begins) => begins[i].pc # "done"
    /\ beginFailure(begins'[i])

\* C9: every begin request that fails answers 500 with a JSON error body and
\* leaves the cache unchanged; when the credentials are not configured it
\* makes no outbound call.
C9_FailedBeginAnswers500 ==
    /\ [](\A i \in 1..Len(begins) :
             begins[i].pc = "done" =>
                /\ beginFailure(begins[i]) =>
                      /\ begins[i].res.status = 500
                      /\ begins[i].res.ctype = "json"
                      /\ begins[i].res.error # ""
                      /\ begins[i].res.auth_url = ""
                /\ begins[i].res.status # 200 => beginFailure(begins[i])
                /\ ~oauth => begins[i].calls = <<>>)
    /\ [][\A i \in 1..(Len(begins) + 1) :
             BeginFails(i) => tempTokenStorage' = tempTokenStorage]_vars

\* a begin request failed on a non-2xx answer while the cache held the entry
\* an earlier begin had stored
C9_Witness ==
    /\ Len(begins) = 2
    /\ begins[1].res.status = 200
    /\ begins[2].got.kind = "not_ok"
    /\ begins[2].res.status = 500
    /\ storageGet(tempTokenStorage, begins[1].got.oauth_token)
          = begins[1].got.oauth_token_secret

\* the callback request made no profile call
noProfileCall(c) == \A k \in 1..Len(c.calls) : c.calls[k].url # TWITTER_USER_INFO_URL

\* C10 as stated: when the access-token call fails (throws or returns
\* non-2xx) the callback request is redirected with access_token_failed and
\* makes no profile call.
C10_AsStated ==
    \A i \in 1..Len(cbs) :
       cbs[i].access \in {"throws", "not_ok"}
       => /\ cbs[i].res = RedirectError("access_token_failed")
          /\ noProfileCall(cbs[i])

\* C10: when the access-token call returns non-2xx the callback request is
\* redirected with access_token_failed; when the call throws, the handler's
\* catch block redirects with callback_failed; in both cases the request
\* makes no profile call.
C10_AccessTokenFailure ==
    \A i \in 1..Len(cbs) :
       /\ cbs[i].access = "not_ok" => cbs[i].res = RedirectError("access_token_failed")
       /\ cbs[i].access = "throws" => cbs[i].res = RedirectError("callback_failed")
       /\ cbs[i].access \in {"throws", "not_ok"}
          => /\ cbs[i].pc = "done"
             /\ Len(cbs[i].calls) = 1
             /\ noProfileCall(cbs[i])

\* one request saw the access-token call throw, another saw it return non-2xx
C10_Witness ==
    /\ Len(cbs) = 2
    /\ cbs[1].access = "throws"
    /\ cbs[1].res = RedirectError("callback_failed")
    /\ cbs[2].access = "not_ok"
    /\ cbs[2].res = RedirectError("access_token_failed")


\* C11 as stated: when the profile call fails (throws, returns non-2xx, or
\* its body cannot be decoded) the callback request is redirected with
\* user_info_failed and hands back no identity fields.
C11_AsStated ==
    \A i \in 1..Len(cbs) :
       cbs[i].profile \in {"throws", "not_ok", "bad_json"}
       => /\ cbs[i].res = RedirectError("user_info_failed")
          /\ cbs[i].res.params = <<>>

\* C11: when the profile call returns non-2xx the callback request is
\* redirected with user_info_failed; when the call throws or its body cannot
\* be decoded, the handler's catch block redirects with callback_failed; in
\* every one of these cases the redirect carries no identity fields.
C11_ProfileFailure ==
    \A i \in 1..Len(cbs) :
       /\ cbs[i].profile = "not_ok" => cbs[i].res = RedirectError("user_info_failed")
       /\ cbs[i].profile \in {"throws", "bad_json"}
          => cbs[i].res = RedirectError("callback_failed")
       /\ cbs[i].profile \in {"throws", "not_ok", "bad_json"}
          => /\ cbs[i].pc = "done"
             /\ cbs[i].res.params = <<>>
             /\ cbs[i].res.location \in { FRONTEND_URL \o "?error=user_info_failed",
                                          FRONTEND_URL \o "?error=callback_failed" }

\* one request whose profile answer could not be decoded, another whose
\* profile call returned non-2xx
C11_Witness ==
    /\ Len(cbs) = 2
    /\ cbs[1].profile = "bad_json"
    /\ cbs[1].res = RedirectError("callback_failed")
    /\ cbs[2].profile = "not_ok"
    /\ cbs[2].res = RedirectError("user_info_failed")


\* some begin request was answered 200 after the provider issued token t
\* with secret x
issued(t, x) ==
    \E j \in 1..Len(begins) :
       /\ begins[j].res.status = 200
       /\ begins[j].got.oauth_token = t
       /\ begins[j].got.oauth_token_secret = x

\* C12: the provider calls of a handshake are made in order, one at a time,
\* each with its own credential.  A begin request makes at most the
\* request-token call, signed with no token credential.  A callback request
\* makes the access-token call first and only after it found the secret in
\* the cache, signed with the request token and that secret (the one a begin
\* stored); it makes the profile call second, only once the access-token
\* call has answered 2xx with both fields, signed with the access token and
\* secret of that answer (not with the request token's credential); at most
\* one call is outstanding.
C12_CallsInOrder ==
    /\ \A j \in 1..Len(begins) :
          /\ Len(begins[j].calls) <= 1
          /\ begins[j].pc = "request_token" => Len(begins[j].calls) = 1
          /\ \A k \in 1..Len(begins[j].calls) :
                /\ begins[j].calls[k].url = TWITTER_REQUEST_TOKEN_URL
                /\ begins[j].calls[k].key = ""
                /\ begins[j].calls[k].secret = ""
    /\ \A i \in 1..Len(cbs) :
          LET c == cbs[i] IN
          /\ Len(c.calls) <= 2
          /\ c.pc = "access_token" => Len(c.calls) = 1 /\ c.access = "none"
          /\ c.pc = "profile" => Len(c.calls) = 2 /\ c.profile = "none"
          /\ Len(c.calls) >= 1 =>
                /\ c.calls[1].url = TWITTER_ACCESS_TOKEN_URL
                /\ c.held /\ c.consumed > 0
                /\ c.calls[1].key = c.query.oauth_token
                /\ c.calls[1].secret = c.secret
                /\ issued(c.query.oauth_token, c.calls[1].secret)
          /\ Len(c.calls) = 2 =>
                /\ c.calls[2].url = TWITTER_USER_INFO_URL
                /\ c.access = "ok"
                /\ c.got.oauth_token # "" /\ c.got.oauth_token_secret # ""
                /\ c.calls[2].key = c.got.oauth_token
                /\ c.calls[2].secret = c.got.oauth_token_secret

\* a handshake that went through its three calls
C12_Witness ==
    \E i \in 1..Len(cbs) :
       /\ Len(cbs[i].calls) = 2
       /\ cbs[i].profile = "ok"
       /\ cbs[i].res.error = ""
       /\ issued(cbs[i].query.oauth_token, cbs[i].secret)


(***************************************************************************)
(* Claims about the callback's responses and the handshake's effects       *)
(***************************************************************************)
CallbackErrorCodes ==
    { "missing_oauth_params", "invalid_token", "access_token_failed",
      "invalid_access_token", "user_info_failed", "callback_failed" }

\* the answer is a redirect to the frontend: with the identity parameters,
\* or with one error code
redirectsToFrontend(res) ==
    /\ res.status = 302
    /\ res.ctype = "redirect"
    /\ \/ /\ res.error = ""
          /\ res.location = FRONTEND_URL \o "?auth=success"
          /\ DOMAIN res.params = { "auth", "twitter_id", "twitter_username",
                                   "twitter_name", "profile_image" }
          /\ res.params.auth = "success"
       \/ /\ res.error \in CallbackErrorCodes
          /\ res.location = FRONTEND_URL \o "?error=" \o res.error
          /\ res.params = <<>>

HandshakeStep == begins' # begins \/ cbs' # cbs

\* C14: no handshake operation writes to persistent storage.  Every step of
\* a begin or callback request leaves the tables user_profiles and
\* status_checks as they were, and every row of user_profiles is the row
\* that a register request answered 200 with.
C14_HandshakePersistsNothing ==
    /\ [][HandshakeStep => /\ user_profiles' = user_profiles
                           /\ status_checks' = status_checks]_vars
    /\ [](\A k \in 1..Len(user_profiles) :
             \E i \in 1..Len(reg) : /\ reg[i].res.status = 200
                                    /\ reg[i].res.user = user_profiles[k])

\* a callback handed back a profile and no profile row exists
C14_Witness ==
    /\ \E i \in 1..Len(cbs) : /\ cbs[i].res.error = ""
                              /\ cbs[i].res.status = 302
                              /\ cbs[i].res.params.twitter_id = "42"
    /\ user_profiles = <<>>
    /\ status_checks = <<>>


(***************************************************************************)
(* Claims about validation                                                 *)
(***************************************************************************)
\* the validator recorded an error for the field
fieldRejected(r, field) == \E e \in r.res.details : e[1] = field

\* C15: registration accepts a twitter_id if and only if it is non-empty,
\* consists of digits only and has 1 to 20 characters.  The validator's
\* isNumeric also lets a sign and a decimal point through.
C15_AsStated ==
    \A i \in 1..Len(reg) :
       LET id == Str(reg[i].raw.twitter_id)
       IN  ~fieldRejected(reg[i], "twitter_id")
              <=> (Len(id) >= 1 /\ Len(id) <= 20 /\ AllIn(id, Digits))


MissingRequiredFields ==
    "Missing required fields: twitter_id, telegram_username, and wallet_address are required"

\* the handle of request r, trimmed, is non-empty and has 1 to 50 characters
trimmedHandleFits(r) ==
    LET t == trim(Str(r.raw.telegram_username))
    IN  Len(t) >= 1 /\ Len(t) <= 50

\* the request was turned away for its handle: by the validator, or by the
\* handler's own test of the required fields
handleRejected(r) ==
    \/ fieldRejected(r, "telegram_username")
    \/ r.res.error = MissingRequiredFields

\* C16: registration accepts a telegram_username if and only if, trimmed, it
\* is non-empty and has 1 to 50 characters; a whitespace-only handle is
\* rejected and gets no row; the value stored and compared is the trimmed
\* one.  The validator measures the handle before it trims it.
C16_AsStated ==
    /\ \A i \in 1..Len(reg) :
          /\ handleRejected(reg[i]) => ~trimmedHandleFits(reg[i])
          /\ reg[i].at \in {"select", "insert"} => trimmedHandleFits(reg[i])
          /\ reg[i].res.status = 200 =>
                reg[i].res.user.telegram_username = trim(Str(reg[i].raw.telegram_username))
    /\ \A k \in 1..Len(user_profiles) :
          Len(trim(user_profiles[k].telegram_username)) > 0


\* "0x" followed by 40 characters from 0-9, a-f, A-F
wellFormedWallet(w) ==
    /\ Len(w) = 42
    /\ SubSeq(w, 1, 2) = <<"0", "x">>
    /\ \A k \in 3..42 : w[k] \in Digits \cup HexLetters

\* C17: registration accepts a wallet_address if and only if it is exactly
\* 42 characters, "0x" followed by 40 hexadecimal characters; any other
\* string (41 or 43 characters, a non-hex character, another prefix) is
\* rejected 400 Validation failed with a message for the field.
C17_WalletFormat ==
    \A i \in 1..Len(reg) :
       LET w == Str(reg[i].raw.wallet_address)
       IN  /\ ~fieldRejected(reg[i], "wallet_address") <=> wellFormedWallet(w)
           /\ ~wellFormedWallet(w) =>
                 /\ reg[i].pc = "done"
                 /\ reg[i].res.status = 400
                 /\ reg[i].res.error = "Validation failed"

\* an address in upper-case hexadecimal digits was registered
C17_Witness ==
    \E i \in 1..Len(reg) :
       /\ reg[i].raw.wallet_address = Wallet("F")
       /\ reg[i].res.status = 200
       /\ reg[i].res.user.wallet_address = Wallet("F")

\* a register request arrives in this step
RegisterArrives == Len(reg') = Len(reg) + 1

adminConfigured == env.ADMIN_USERNAME # Absent /\ env.ADMIN_PASSWORD # Absent

\* the request presents exactly the configured username and password
presentsConfigured(r) ==
    /\ adminConfigured
    /\ r.raw.username = env.ADMIN_USERNAME
    /\ r.raw.password = env.ADMIN_PASSWORD

\* the answer is 200 with every row of the table, newest first, and their count
listsAllRows(res) ==
    /\ res.status = 200
    /\ Len(res.users) = Len(user_profiles)
    /\ \A k \in 1..Len(user_profiles) :
          \E l \in 1..Len(res.users) : res.users[l] = user_profiles[k]
    /\ \A k, l \in 1..Len(res.users) :
          k < l => res.users[k].created_at >= res.users[l].created_at
    /\ res.count = Len(res.users)

\* the request was answered and no database operation failed on the way
answeredByHandler(r) == r.pc = "done" /\ r.res.status # 500

\* C19 as stated: for every configured pair, a listing request presenting
\* exactly that pair is answered 200 with all rows, newest first.  A
\* configured name or password that the request validator turns away, or a
\* name that the sanitizers rewrite, can never be presented successfully.
C19_AsStated ==
    \A i \in 1..Len(adm) :
       (presentsConfigured(adm[i]) /\ answeredByHandler(adm[i]))
       => listsAllRows(adm[i].res)

\* the validator accepts the pair and the sanitizers leave the name as it is
presentable(u, w) ==
    /\ Len(u) >= 3 /\ Len(u) <= 50
    /\ trim(u) = u
    /\ escape(u) = u
    /\ Len(w) >= 8

\* C19: for every configured pair whose username has 3 to 50 characters, no
\* surrounding whitespace and no character that HTML-escaping rewrites, and
\* whose password has at least 8 characters, a listing request presenting
\* exactly that pair is answered (the storage working) 200 with all rows of
\* user_profiles, ordered by created_at descending, and their count.
C19_ConfiguredPairLists ==
    \A i \in 1..Len(adm) :
       (/\ presentsConfigured(adm[i])
        /\ presentable(env.ADMIN_USERNAME, env.ADMIN_PASSWORD))
       => /\ adm[i].pc # "done" => adm[i].pc \in {"connect", "select", "escaped"}
          /\ answeredByHandler(adm[i]) => listsAllRows(adm[i].res)

\* the configured pair was presented and three rows came back, two of them
\* with the same created_at
C19_Witness ==
    \E i \in 1..Len(adm) :
       /\ presentsConfigured(adm[i])
       /\ adm[i].res.status = 200
       /\ adm[i].res.count = 3
       /\ adm[i].res.users[1].created_at = adm[i].res.users[2].created_at
       /\ adm[i].res.users[3].created_at < adm[i].res.users[2].created_at

Unauthorized401 ==
    [status |-> 401, ctype |-> "json", error |-> "Unauthorized", details |-> {},
     users |-> <<>>, count |-> 0]

\* C20 as stated: a listing request whose username or password differs from
\* the configured secret is answered 401 with no rows and no query, the same
\* answer whichever is wrong.  A request the validator turns away is
\* answered 400 with its field errors, and a username that differs only by
\* surrounding whitespace is accepted.
C20_AsStated ==
    \A i \in 1..Len(adm) :
       (/\ adminConfigured
        /\ \/ adm[i].raw.username # env.ADMIN_USERNAME
           \/ adm[i].raw.password # env.ADMIN_PASSWORD)
       => /\ adm[i].pc = "done"
          /\ adm[i].res = Unauthorized401

\* the request passes the validator, and its username as sanitized, or its
\* password, differs from the configured secret
mismatches(r) ==
    /\ validateAdmin(r.raw) = {}
    /\ \/ escape(trim(r.raw.username)) # env.ADMIN_USERNAME
       \/ r.raw.password # env.ADMIN_PASSWORD

\* C20: a listing request that passes the validator and whose username
\* (trimmed and HTML-escaped) or password differs from the configured secret
\* is answered 401 Unauthorized with no rows, before any connection or
\* query; the answer is the same whether the username, the password or both
\* are wrong.
C20_MismatchUnauthorized ==
    /\ \A i \in 1..Len(adm) :
          mismatches(adm[i]) => /\ adm[i].pc = "done"
                                /\ adm[i].res = Unauthorized401
                                /\ adm[i].res.users = <<>>
    /\ \A i, j \in 1..Len(adm) :
          (mismatches(adm[i]) /\ mismatches(adm[j])) => adm[i].res = adm[j].res

\* one request had only the password wrong, the other only the username:
\* the same answer, while the table holds rows
C20_Witness ==
    /\ Len(adm) = 2
    /\ adminConfigured
    /\ mismatches(adm[1]) /\ mismatches(adm[2])
    /\ adm[1].raw.username = env.ADMIN_USERNAME
    /\ adm[1].raw.password # env.ADMIN_PASSWORD
    /\ adm[2].raw.username # env.ADMIN_USERNAME
    /\ adm[2].raw.password = env.ADMIN_PASSWORD
    /\ adm[1].res = adm[2].res
    /\ Len(user_profiles) > 0


(***************************************************************************)
(* Claims about what the duplicate rejection reveals                       *)
(***************************************************************************)
\* the existence check found a row and the handler turned the request away
rejectedAtSelect(r) == r.pc = "done" /\ r.at = "select" /\ r.code = ""

\* the INSERT was refused for a unique-constraint violation
rejectedAtInsert(r) == r.pc = "done" /\ r.at = "insert" /\ r.code = "23505"

\* the unique fields of registration r that a row of the table holds
matching(r) == collidingFields(user_profiles, r.body)

\* C21: any two registrations rejected as duplicates on the same path, the
\* existence check or the unique-constraint violation at INSERT, got the
\* same status code and the same response body, whichever of twitter_id,
\* telegram_username and wallet_address matched an existing row.
C21_DuplicateAnswerHidesField ==
    \A i, j \in 1..Len(reg) :
        /\ (rejectedAtSelect(reg[i]) /\ rejectedAtSelect(reg[j]))
              => reg[i].res = reg[j].res /\ reg[i].res.status = 400
        /\ (rejectedAtInsert(reg[i]) /\ rejectedAtInsert(reg[j]))
              => reg[i].res = reg[j].res /\ reg[i].res.status = 400

\* against a table of one row, two registrations were refused at INSERT,
\* one for its twitter_id and one for its telegram_username
C21_Witness ==
    /\ Len(user_profiles) = 1
    /\ \E i, j \in 1..Len(reg) :
          /\ rejectedAtInsert(reg[i]) /\ rejectedAtInsert(reg[j])
          /\ matching(reg[i]) = {"twitter_id"}
          /\ matching(reg[j]) = {"telegram_username"}


(***************************************************************************)
(* Claims about the database connections                                   *)
(***************************************************************************)
\* the requests that hold a client: pool.connect() gave them one and their
\* handler has not finished
holding ==
    Cardinality({i \in 1..Len(reg) : reg[i].pc \in {"select", "insert"}})
    + Cardinality({i \in 1..Len(adm) : adm[i].pc = "select"})
    + Cardinality({i \in 1..Len(sts) : sts[i].pc \in {"insert", "select"}})

\* no request is between its arrival and its end
noneInFlight ==
    /\ \A i \in 1..Len(reg) : reg[i].pc \in {"done", "escaped"}
    /\ \A i \in 1..Len(adm) : adm[i].pc \in {"done", "escaped"}
    /\ \A i \in 1..Len(sts) : sts[i].pc \in {"done", "escaped"}

\* C22: every connection checked out by a register, admin listing or status
\* request is released exactly once before the request ends, on every path:
\* the connections checked out are exactly those of the requests still
\* running between pool.connect() and the end of their handler, and none is
\* checked out when no request is in flight.
C22_ConnectionsReleased ==
    /\ checkedOut = holding
    /\ noneInFlight => checkedOut = 0

\* a registration turned away by the defensive field check and one whose
\* query failed have both ended, and no connection is checked out
C22_Witness ==
    /\ noneInFlight
    /\ checkedOut = 0
    /\ \E i, j \in 1..Len(reg) :
          /\ reg[i].res.status = 400 /\ reg[i].at = "connect" /\ reg[i].pc = "done"
          /\ reg[j].res.status = 500 /\ reg[j].code = "08006"


(***************************************************************************)
(* Claims about failures of the database                                   *)
(***************************************************************************)
\* a database operation failed under the request: pool.connect() rejected,
\* or a query of the registration rejected with a code other than 23505
storageFailed(r) == r.pc = "escaped" \/ (r.pc = "done" /\ "code" \in DOMAIN r /\ r.code = "08006")

\* the request ended with a 500 and a JSON error body
answered500Json(r) == r.res.status = 500 /\ r.res.ctype = "json"

\* C23 as stated: whenever a database operation fails while serving
\* POST /api/register, POST /api/users or GET/POST /api/status, acquiring the
\* connection or executing a query (a unique-constraint violation on register
\* apart), the request ends with an HTTP 500 JSON error response.  The
\* handlers await pool.connect() before their try block, so its rejection
\* is caught by none of them.
C23_AsStated ==
    /\ \A i \in 1..Len(reg) : storageFailed(reg[i]) => answered500Json(reg[i])
    /\ \A i \in 1..Len(adm) : storageFailed(adm[i]) => answered500Json(adm[i])
    /\ \A i \in 1..Len(sts) : storageFailed(sts[i]) => answered500Json(sts[i])


(***************************************************************************)
(* Claims about the rows of user_profiles                                  *)
(***************************************************************************)
\* every row of the table before the step is a row of the table after it,
\* with the same id and the same values in every column
RowsKept ==
    \A k \in 1..Len(user_profiles) :
        \E n \in 1..Len(user_profiles') : user_profiles'[n] = user_profiles[k]

\* updated_at still holds the timestamp the INSERT wrote, that of created_at
NeverUpdated ==
    \A k \in 1..Len(user_profiles) :
        user_profiles[k].updated_at = user_profiles[k].created_at

\* C24: rows of user_profiles are write-once.  No step of a register, admin
\* listing or status request updates or deletes a row, so every row that
\* ever existed is still in the table with the same id, wallet_address,
\* twitter_id, telegram_username and created_at, and its updated_at equals
\* its created_at, the timestamp written at insertion.
C24_RowsWriteOnce ==
    /\ [][RowsKept]_vars
    /\ []NeverUpdated
    /\ [](\A i \in 1..Len(reg) :
             reg[i].res.status = 200 =>
                \E n \in 1..Len(user_profiles) : user_profiles[n] = reg[i].res.user)

\* a row was written, and a later registration that collided with it at
\* INSERT has ended: the row is as it was returned
C24_Witness ==
    \E i, j \in 1..Len(reg) :
        /\ reg[i].res.status = 200
        /\ user_profiles = <<reg[i].res.user>>
        /\ reg[j].pc = "done" /\ reg[j].code = "23505"


(***************************************************************************)
(* Claims about the leaderboards                                           *)
(***************************************************************************)
\* ten entries, ranked 1 to 10 in order, scores descending
rankedTen(data) ==
    /\ Len(data) = 10
    /\ \A k \in 1..Len(data) : data[k].rank = k
    /\ \A k \in 1..Len(data) - 1 : data[k].score >= data[k + 1].score

limitedBoard(b) == b.status = 429 /\ b.error = TooManyRequests /\ b.data = <<>>

\* C25 as stated: GET /api/top-raiders answers, in every state and whatever
\* requests came before, exactly 10 entries whose ranks are 1 to 10 in order
\* and whose scores are in descending order; so do /api/top-whales and
\* /api/loyalty-ranking.  The limiter in front of every route counts the
\* requests that came before.
C25_AsStated ==
    \A i \in 1..Len(boards) :
        /\ boards[i].status = 200
        /\ rankedTen(boards[i].data)

\* C25: a request to /api/top-raiders, /api/top-whales or
\* /api/loyalty-ranking is answered 200 with exactly 10 entries, ranked 1 to
\* 10 in order with scores descending, whatever the state and the requests
\* before it, unless it is beyond the 100th request the general rate limiter
\* counted in the current window: then, and only then, it is answered 429
\* with the limiter's JSON error.
C25_AdmittedLeaderboardsRankedTen ==
    /\ [](\A i \in 1..Len(boards) :
            \/ boards[i].status = 200 /\ rankedTen(boards[i].data)
            \/ limitedBoard(boards[i]))
    /\ [][\A path \in {"/top-raiders", "/top-whales", "/loyalty-ranking"} :
             (Len(boards') = Len(boards) + 1 /\ boards'[Len(boards')].path = path)
             => (limitedBoard(boards'[Len(boards')]) <=> generalHits >= GeneralMax)]_vars

\* the top raiders were asked for as the 100th request of the window, after
\* another leaderboard request, and answered with the ten entries
C25_Witness ==
    /\ generalHits = GeneralMax
    /\ Len(boards) = 2
    /\ boards[1].path # "/top-raiders"
    /\ boards[2].path = "/top-raiders"
    /\ boards[2].status = 200
    /\ boards[2].data = TopRaiders


(***************************************************************************)
(* Claims about the life of a cache entry                                  *)
(***************************************************************************)
\* the secret the cache holds for token t, "" when it holds none
entry(t) == storageGet(tempTokenStorage, t)

\* the same, after the step
entryAfter(t) == storageGet(tempTokenStorage', t)

\* in this step a callback request carrying token t and a verifier arrives
claims(t) ==
    /\ CallbackArrives
    /\ cbs'[Len(cbs')].query.oauth_token = t
    /\ cbs'[Len(cbs')].query.oauth_verifier # ""

\* in this step a begin request stores token t
storesToken(t) == stores'[t] = stores[t] + 1

\* C26 as stated: an entry of the cache stays, with its secret unchanged,
\* until a callback request carrying its token and a verifier arrives; no
\* other operation removes or changes it.  A later begin to which the
\* provider issues the same token replaces the secret.
C26_AsStated ==
    [][\A t \in RequestTokens :
          (entry(t) # "" /\ ~claims(t)) => entryAfter(t) = entry(t)]_vars

\* C26: an entry stored in the cache by a begin request stays in the cache
\* until a callback request carrying that same token and a verifier arrives,
\* and its secret is unchanged unless a later begin request is issued the
\* same token and stores it again with the secret it received; no other
\* operation removes or changes it.
C26_EntryStaysUntilClaimed ==
    [][\A t \in RequestTokens :
          (entry(t) # "" /\ ~claims(t)) =>
             /\ entryAfter(t) # ""
             /\ ~storesToken(t) => entryAfter(t) = entry(t)]_vars

\* the entry of t1 is still there with its secret after a callback for t2
\* was served and a callback for t1 came without a verifier
C26_Witness ==
    /\ entry("t1") = "s1"
    /\ stores["t1"] = 1
    /\ Len(cbs) = 2
    /\ \A i \in 1..2 : cbs[i].pc = "done"
    /\ \E i, j \in 1..2 :
          /\ cbs[i].query = [oauth_token |-> "t2", oauth_verifier |-> "v"]
          /\ cbs[i].held
          /\ cbs[j].query = [oauth_token |-> "t1", oauth_verifier |-> ""]

\* C27: handshakes for different request tokens do not interfere, however
\* their steps interleave: a step changes the cache entry of a token only if
\* it is a begin request storing that token or the arrival of a callback
\* request for that token with a verifier; and a callback request that lacks
\* the token or the verifier (error=missing_oauth_params) removes no entry.
C27_TokensDoNotInterfere ==
    /\ [][\A t \in RequestTokens :
             entryAfter(t) # entry(t) => (storesToken(t) \/ claims(t))]_vars
    /\ [][(/\ CallbackArrives
           /\ cbs'[Len(cbs')].res = RedirectError("missing_oauth_params"))
          => tempTokenStorage' = tempTokenStorage]_vars

\* with t1 and t2 both cached, the callback for t1 removed its entry and left
\* that of t2
C27_Witness ==
    /\ stores["t1"] = 1 /\ stores["t2"] = 1
    /\ entry("t1") = "" /\ entry("t2") = "s1"
    /\ \E i \in 1..Len(cbs) :
          /\ cbs[i].query.oauth_token = "t1"
          /\ cbs[i].held
          /\ cbs[i].stored = 1


(***************************************************************************)
(* Claims about the callback URL                                           *)
(***************************************************************************)
\* the oauth_callback the request-token call of begin request i carries
sentCallback(i) == begins[i].calls[1].data.oauth_callback

\* C28 as stated: in production, for every BACKEND_URL of the form
\* scheme://host, optionally followed by trailing slashes or by a path
\* beginning with /api, the oauth_callback sent to the provider is exactly
\* scheme://host/api/auth/twitter/callback, the host preserved in full, also
\* when its name begins with "api".  The handler cuts the URL at the first
\* "/api", which in scheme://api.example.com is inside the "//".
C28_AsStated ==
    \A i \in 1..Len(begins) :
       \A sc \in Schemes, h \in Hosts, x \in UrlSuffixes :
          (/\ env.NODE_ENV = "production"
           /\ env.BACKEND_URL = Origin(sc, h) \o x
           /\ Len(begins[i].calls) > 0)
          => sentCallback(i) = Origin(sc, h) \o CallbackPath


(***************************************************************************)
(* Claims about an unconfigured admin                                      *)
(***************************************************************************)
\* C29: when ADMIN_USERNAME or ADMIN_PASSWORD is not set in the process
\* environment, no admin listing request returns rows: every POST /api/users
\* request, whatever username and password its body carries, ends in 400 or
\* 401 and never in 200.
C29_UnconfiguredAdminNeverLists ==
    ~adminConfigured =>
        \A i \in 1..Len(adm) :
            /\ adm[i].pc = "done"
            /\ adm[i].res.status \in {400, 401}
            /\ adm[i].res.users = <<>>

\* only the password is unset: a request with the configured username and a
\* well-formed password is answered 401 while the table holds rows
C29_Witness ==
    /\ env.ADMIN_USERNAME = AdminName
    /\ env.ADMIN_PASSWORD = Absent
    /\ Len(user_profiles) > 0
    /\ \E i \in 1..Len(adm) :
          /\ adm[i].raw.username = AdminName
          /\ validateAdmin(adm[i].raw) = {}
          /\ adm[i].res.status = 401


(***************************************************************************)
(* Claims about the signing context                                        *)
(***************************************************************************)
cacheNonEmpty == tempTokenStorage.defined /\ DOMAIN tempTokenStorage.map # {}

====
